---- MODULE Spec2Model ----
(***************************************************************************)
(* DojoTap backend: the session/token manager (LocalAuthManager) with its  *)
(* token cipher, the credential store rows it owns and the OAuth bridge    *)
(* it calls.  Coroutines are the processes of Procs; every handler is cut  *)
(* at the awaits where another coroutine can run: waiting for the          *)
(* asyncio.Lock and waiting for the identity provider.                     *)
(***************************************************************************)
EXTENDS Integers, Sequences, FiniteSets, TLC

(***************************************************************************)
(* Bounds of the model.                                                    *)
(***************************************************************************)
MaxSessions == 2       \* logins that mint a session id
MaxIssued == 2         \* token responses the identity provider gives
MaxTicks == 1          \* clock advances
TickSeconds == 60      \* seconds per clock advance
MaxVersion == 3        \* highest version a preferences document gets
MaxDays == 2           \* local days the auto-backfill sees
MaxJobs == 3           \* backfill jobs that are started

Procs == {"p1", "p2"}              \* coroutines of the event loop
NoProc == "none"

(***************************************************************************)
(* Program constants.                                                      *)
(***************************************************************************)
AuthRefreshSkewSeconds == 120
DefaultExpiresIn == 3600
MinExpiresIn == 60

(***************************************************************************)
(* Strings.  A string is a record: k and n name its content ("" / 0 for no *)
(* content), pad says whether white space surrounds the content.  None is  *)
(* Python's None.                                                          *)
(***************************************************************************)
Str(k, n, pad) == [k |-> k, n |-> n, pad |-> pad]
Empty == Str("", 0, FALSE)
Blank == Str("", 0, TRUE)
NoneVal == Str("None", 0, FALSE)
Tok(k, n) == Str(k, n, FALSE)

\* str.strip()
Strip(s) == [s EXCEPT !.pad = FALSE]
\* (x or "")
OrEmpty(s) == IF s = NoneVal \/ s = Empty THEN Empty ELSE s
\* bool(x) of a str | None
Truthy(s) == s # NoneVal /\ s # Empty

(***************************************************************************)
(* TokenCipher.  Fernet output differs on every call: nonce stands for the *)
(* IV and timestamp.  A ciphertext is not a Str with k = "" or "None".     *)
(***************************************************************************)
Ciphertext(plain, nonce) == [k |-> "fernet", n |-> nonce, pad |-> FALSE, plain |-> plain]

\* The output of a Fernet built from another passphrase: the key of this
\* process does not verify it.
ForeignCiphertext(plain, nonce) ==
    [k |-> "fernet-other-key", n |-> nonce, pad |-> FALSE, plain |-> plain]

\* An encrypt that makes a ciphertext of the empty string too.
EncryptEvenEmpty(plaintext, nonce) == Ciphertext(Strip(OrEmpty(plaintext)), nonce)

\* An encrypt without its .strip().
EncryptKeepingPadding(plaintext, nonce) ==
    IF ~Truthy(Strip(OrEmpty(plaintext))) THEN NoneVal ELSE Ciphertext(plaintext, nonce)

Encrypt(plaintext, nonce) ==
    LET value == Strip(OrEmpty(plaintext))
    IN  IF ~Truthy(value) THEN NoneVal ELSE Ciphertext(value, nonce)

\* A decrypt that hands back what it cannot decrypt.
DecryptPassThrough(ciphertext) ==
    LET value == Strip(OrEmpty(ciphertext))
    IN  IF ~Truthy(value) THEN NoneVal
        ELSE IF value.k = "fernet" THEN value.plain
        ELSE value

Decrypt(ciphertext) ==
    LET value == Strip(OrEmpty(ciphertext))
    IN  IF ~Truthy(value) THEN NoneVal
        ELSE IF value.k = "fernet" THEN value.plain
        ELSE NoneVal

(***************************************************************************)
(* _to_int and the token payload of the identity provider.                 *)
(***************************************************************************)
ExpMissing == [kind |-> "missing", v |-> 0]
ExpJunk == [kind |-> "junk", v |-> 0]
ExpInt(v) == [kind |-> "int", v |-> v]
ExpiresIns == {ExpMissing, ExpInt(0), ExpInt(180)}

\* Further values of expires_in: a float given in tenths, True or False, a
\* string of digits, a float beyond the range of a double (1e400 in the JSON
\* text, which json.loads reads as inf).
ExpFloat(tenths) == [kind |-> "float", v |-> tenths]
ExpBool(v) == [kind |-> "bool", v |-> v]
ExpDigits(v) == [kind |-> "digits", v |-> v]
ExpInf == [kind |-> "inf", v |-> 0]

\* int(x) of a float: towards zero
Truncate(tenths) == IF tenths >= 0 THEN tenths \div 10 ELSE -((-tenths) \div 10)

\* int(value) raises OverflowError, which `except (TypeError, ValueError)`
\* lets through
ToIntOverflows(value) == value.kind = "inf"

\* _to_int, for a value int() takes or refuses with TypeError or ValueError
ToInt(value, fallback) ==
    CASE value.kind \in {"int", "bool", "digits"} -> value.v
      [] value.kind = "float" -> Truncate(value.v)
      [] OTHER -> fallback

Max(a, b) == IF a >= b THEN a ELSE b

\* What the provider puts in a token response: which keys, which lifetime.
Shape(id, access, refresh, expires_in) ==
    [id |-> id, access |-> access, refresh |-> refresh, expires_in |-> expires_in]
PayloadShapes ==
    {Shape("new", "new", "new", ExpMissing),     \* all keys but expires_in
     Shape("new", "new", "blank", ExpInt(180)),  \* blank refresh token, short lifetime
     Shape("none", "new", "new", ExpInt(0)),     \* no id token, lifetime below the floor
     Shape("none", "none", "new", ExpInt(180))}  \* no bearer token at all

\* token_payload.get(key, ""), for the n-th response of the provider
PayloadOf(shape, n) ==
    [id_token |-> IF shape.id = "new" THEN Tok("id", n) ELSE Empty,
     access_token |-> IF shape.access = "new" THEN Tok("access", n) ELSE Empty,
     refresh_token |-> CASE shape.refresh = "new" -> Str("refresh", n, TRUE)
                         [] shape.refresh = "blank" -> Blank
                         [] OTHER -> Empty,
     expires_in |-> shape.expires_in]

Raise(status_code, detail) ==
    [raised |-> TRUE, status_code |-> status_code, detail |-> detail]

\* The refresh token of the payload or nothing: the fallback forgotten.
RefreshTokenOfPayloadOnly(raw_refresh_token, fallback_refresh_token) ==
    IF Truthy(raw_refresh_token) THEN raw_refresh_token ELSE NoneVal

\* `raw_refresh_token or (fallback_refresh_token or "").strip() or None`
RefreshTokenOf(raw_refresh_token, fallback_refresh_token) ==
    LET fallback == Strip(OrEmpty(fallback_refresh_token))
    IN  IF Truthy(raw_refresh_token) THEN raw_refresh_token
        ELSE IF Truthy(fallback) THEN fallback
        ELSE NoneVal

SessionTokensFromPayload(token_payload, username, fallback_refresh_token, t) ==
    LET id_token == Strip(token_payload.id_token)
        access_token == Strip(token_payload.access_token)
        raw_refresh_token == Strip(token_payload.refresh_token)
        refresh_token == RefreshTokenOf(raw_refresh_token, fallback_refresh_token)
        expires_in_seconds ==
            Max(ToInt(token_payload.expires_in, DefaultExpiresIn), MinExpiresIn)
    IN  IF ~Truthy(id_token) /\ ~Truthy(access_token)
        THEN Raise(502, "Missing OAuth bearer token.")
        ELSE IF ToIntOverflows(token_payload.expires_in)
        THEN Raise(500, "OverflowError")
        ELSE [raised |-> FALSE,
              access_token |-> access_token,
              id_token |-> id_token,
              refresh_token |-> refresh_token,
              expires_at_epoch |-> t + expires_in_seconds,
              username |-> username]

\* SessionTokens.bearer_token
BearerToken(tokens) ==
    IF Truthy(tokens.id_token) THEN tokens.id_token ELSE tokens.access_token

(***************************************************************************)
(* The OAuth bridge.                                                       *)
(***************************************************************************)
ErrorCodes ==
    {"", "invalid_grant", "unauthorized_client", "invalid_request",
     "unsupported_grant_type", "server_error"}
ErrorStatusCodes == {400, 401, 403, 500}

NoShape == [id |-> "none", access |-> "none", refresh |-> "none", expires_in |-> ExpMissing]

\* What the token endpoint can answer to a refresh grant.
RefreshResponses ==
    [kind : {"network_error", "non_json", "non_dict"},
     status_code : {0}, error : {""}, shape : {NoShape}]
    \cup [kind : {"http_error"}, status_code : ErrorStatusCodes,
          error : ErrorCodes, shape : {NoShape}]
    \cup [kind : {"json"}, status_code : {200}, error : {""}, shape : PayloadShapes]

\* str(...).strip() and .lower() of the error code of an error payload
NormalizeErrorCode(error_code) ==
    CASE error_code = " Invalid_Grant " -> "invalid_grant"
      [] error_code = "UNSUPPORTED_GRANT_TYPE" -> "unsupported_grant_type"
      [] OTHER -> error_code

\* A classifier that takes every 4xx status for a refusal.
MapOAuthTokenErrorEvery4xx(status_code, error_code) ==
    LET normalized == NormalizeErrorCode(error_code)
    IN  IF normalized \in {"invalid_grant", "unauthorized_client"} THEN 401
        ELSE IF normalized \in {"invalid_request", "unsupported_grant_type"} THEN 400
        ELSE IF status_code >= 400 /\ status_code < 500 THEN 401
        ELSE 502

\* _map_oauth_token_error: the status code of the HTTPException it builds
MapOAuthTokenError(status_code, error_code) ==
    LET normalized == NormalizeErrorCode(error_code)
    IN  IF normalized \in {"invalid_grant", "unauthorized_client"} THEN 401
        ELSE IF normalized \in {"invalid_request", "unsupported_grant_type"} THEN 400
        ELSE IF status_code \in {400, 401, 403} THEN 401
        ELSE 502

\* _oauth_refresh_tokens: the parsed payload, or the HTTPException raised
OAuthRefreshTokens(response, n) ==
    CASE response.kind = "network_error" -> Raise(502, "refresh network error")
      [] response.kind = "http_error" ->
            Raise(MapOAuthTokenError(response.status_code, response.error), "refresh failed")
      [] response.kind = "non_json" -> Raise(502, "non-JSON payload")
      [] response.kind = "non_dict" -> Raise(502, "payload was not an object")
      [] OTHER -> [raised |-> FALSE, payload |-> PayloadOf(response.shape, n)]

\* What _oauth_login_with_credentials can end with: an HTTPException of the
\* hosted-UI flow or of the code exchange, or the token payload.
LoginResponses ==
    [kind : {"raise"}, status_code : {400, 401, 502}, shape : {NoShape}]
    \cup [kind : {"json"}, status_code : {200}, shape : PayloadShapes]

OAuthLoginWithCredentials(response, n) ==
    IF response.kind = "raise"
    THEN Raise(response.status_code, "login failed")
    ELSE [raised |-> FALSE, payload |-> PayloadOf(response.shape, n)]

(***************************************************************************)
(* State.                                                                  *)
(***************************************************************************)
VARIABLES
    sessions,    \* browser_session table: session_id -> row
    users,       \* user_auth_state table: user_key -> row
    lock,        \* LocalAuthManager._lock: its holder, or NoProc
    call,        \* per coroutine: the handler it runs, its arguments and locals
    result,      \* what the handler that just ended returns or raises, and to whom,
                 \* until its caller has it
    lastRefresh, \* the get_bearer_token refresh that committed last, while no handler has
                 \* run since but get_bearer_token calls that returned its token
    expired,     \* the session ids on which get_bearer_token has raised "Session expired"
    now,         \* time.time()
    nextSid,     \* session ids minted so far (secrets.token_urlsafe never repeats)
    issued,      \* token responses given by the identity provider so far
    arg,         \* the arguments of a helper function that is called on its own
    ret,         \* what that call returns
    preferences, \* user_preferences table: user_key -> row
    autoBackfill, \* ct_auto_backfill: the setting, the local day, the state file, the jobs
    request,     \* the HTTP request being handled by main.py: handler, position, locals
    bootstrapCache \* bootstrap_cache table: user_key -> row

vars == <<sessions, users, lock, call, result, lastRefresh, expired, now, nextSid, issued,
          arg, ret, preferences, autoBackfill, request, bootstrapCache>>

NoArg == [f |-> "none"]
NoRet == [f |-> "none"]
NoAutoBackfill == [enabled |-> FALSE]
\* What a handler of main.py answers: a HealthResponse or the bootstrap payload.
NoResponse ==
    [kind |-> "none", ok |-> FALSE, token_configured |-> FALSE, upstream_reachable |-> FALSE,
     stale |-> FALSE, data_source |-> "", fetched_at_epoch |-> 0, pinned_task_ids |-> <<>>,
     preferences_version |-> 0]
\* No request has come in yet.
NoRequest ==
    [handler |-> "none", pc |-> "idle", sid |-> 0, user_key |-> "", resolved_user_key |-> "",
     force |-> FALSE, bearer_token |-> "<None>", builds |-> <<>>, runs |-> <<>>,
     fetched |-> 0, pins |-> <<>>, cached |-> NoResponse, cached_at_epoch |-> 0,
     cache_loads |-> 0, status_code |-> 0, detail |-> "", payload |-> NoResponse]

EmptySid == 0                       \* None, "" or white space only
SessionIds == 1..MaxSessions
SidInputs == 0..MaxSessions

Idle ==
    [op |-> "none", pc |-> "idle", sid |-> 0, force |-> FALSE, all_devices |-> FALSE,
     user_key |-> "", persist |-> FALSE, refresh_token |-> NoneVal, tokens |-> Raise(0, ""),
     now_epoch |-> 0, nonce |-> 0]

NoUsername == "<None>"
Status(authenticated, auth_mode, has_refresh_token, username, auth_state, needs_relogin) ==
    [authenticated |-> authenticated, auth_mode |-> auth_mode,
     has_refresh_token |-> has_refresh_token, username |-> username,
     auth_state |-> auth_state, needs_relogin |-> needs_relogin]
NoStatus == Status(FALSE, "", FALSE, NoUsername, "", FALSE)
\* An anonymous status that still reports a stored refresh token.
AnonymousStatusWithRefreshToken == Status(FALSE, "none", TRUE, NoUsername, "expired", TRUE)
\* _anonymous_status
AnonymousStatus == Status(FALSE, "none", FALSE, NoUsername, "expired", TRUE)

NoResult ==
    [proc |-> NoProc, op |-> "none", sid |-> 0, status_code |-> 0, detail |-> "", token |-> NoneVal,
     user_key |-> "", refreshed |-> FALSE, bridge |-> 0, used_refresh_token |-> NoneVal,
     status |-> NoStatus, force |-> FALSE, all_devices |-> FALSE]

NoRefresh == [proc |-> NoProc, sid |-> 0, force |-> FALSE]

AuthRequired == "Authentication required. Sign in with your ChessDojo email and password."
SessionExpired == "Session expired. Please sign in again with your ChessDojo email and password."

Init ==
    /\ sessions = <<>>
    /\ users = <<>>
    /\ lock = NoProc
    /\ call = [p \in Procs |-> Idle]
    /\ result = NoResult
    /\ lastRefresh = NoRefresh
    /\ expired = {}
    /\ now = 0
    /\ nextSid = 0
    /\ issued = 0
    /\ arg = NoArg
    /\ ret = NoRet
    /\ preferences = <<>>
    /\ autoBackfill = NoAutoBackfill
    /\ request = NoRequest
    /\ bootstrapCache = <<>>

(***************************************************************************)
(* The clock.                                                              *)
(***************************************************************************)
Tick ==
    /\ result = NoResult
    /\ now < MaxTicks * TickSeconds
    /\ now' = now + TickSeconds
    /\ UNCHANGED <<sessions, users, lock, call, result, lastRefresh, expired, nextSid, issued,
                   arg, ret, preferences, autoBackfill, request, bootstrapCache>>

(***************************************************************************)
(* Helpers of the handlers.                                                *)
(***************************************************************************)
\* A lock that lets everybody in.
CanAcquireAlways(p) == TRUE

\* `async with self._lock`: the coroutine goes on once nobody holds the lock
CanAcquire(p) == lock = NoProc

\* The refresh grant awaited after the `async with self._lock` block is left.
LockDroppedWhileRefreshing(p) == NoProc

\* The refresh grant is awaited inside the `async with self._lock` block: the
\* lock stays with the coroutine.
LockWhileRefreshing(p) == p

\* The set without 400: a malformed grant request treated as a passing failure.
RevokingStatusCodesWithoutBadRequest == {401, 403}

\* The set with 502 added: a bad gateway treated as a refusal of the token.
RevokingStatusCodesWithBadGateway == {400, 401, 403, 502}

\* `if exc.status_code in {400, 401, 403}`
RevokingStatusCodes == {400, 401, 403}

\* A generator that repeats itself: every login gets the session id 1.
MintSessionIdRepeating(minted) == 1

\* `secrets.token_urlsafe(48)`: 48 random bytes, taken never to repeat; the
\* n-th login of the process gets the session id n
MintSessionId(minted) == minted + 1

\* A fan-out that stops at the session named in the call.
RowsOfUserOnlyNamed(S, session_id, user_key) == {session_id}

\* `select(BrowserSession).where(BrowserSession.user_key == user_key)`, each
\* row of which logout(all_devices=True) revokes
RowsOfUser(S, session_id, user_key) == {s \in DOMAIN S : S[s].user_key = user_key}

\* The test without its `or session_record.revoked`.
SessionUsableIgnoringRevoked(S, session_id) == session_id \in DOMAIN S

\* `if not session_record or session_record.revoked` (negated)
SessionUsable(S, session_id) == session_id \in DOMAIN S /\ ~S[session_id].revoked

\* The comparison with the skew taken off twice.
HasValidSessionTokenSkewTwice(session_record, t) ==
    session_record.expires_at_epoch - 2 * AuthRefreshSkewSeconds > t

\* The comparison with >= for >.
HasValidSessionTokenInclusive(session_record, t) ==
    session_record.expires_at_epoch - AuthRefreshSkewSeconds >= t

\* _has_valid_session_token
HasValidSessionToken(session_record, t) ==
    session_record.expires_at_epoch - AuthRefreshSkewSeconds > t

\* The access token taken before the id token.
ResolveBearerTokenAccessFirst(session_record) ==
    IF Truthy(Strip(OrEmpty(session_record.access_token)))
    THEN Strip(OrEmpty(session_record.access_token))
    ELSE Strip(OrEmpty(session_record.id_token))

\* _resolve_bearer_token: the bearer, or Empty when it raises 401
ResolveBearerToken(session_record) ==
    IF Truthy(Strip(OrEmpty(session_record.id_token)))
    THEN Strip(OrEmpty(session_record.id_token))
    ELSE Strip(OrEmpty(session_record.access_token))

\* _apply_tokens_to_session
ApplyTokensToSession(session_record, tokens, t) ==
    [session_record EXCEPT !.access_token = tokens.access_token,
                           !.id_token = tokens.id_token,
                           !.expires_at_epoch = tokens.expires_at_epoch,
                           !.last_seen_epoch = t,
                           !.revoked = FALSE]

\* The branch without its `session_record.revoked = True`.
RevokeForgotten(session_record) == session_record

\* `session_record.revoked = True` on an except branch or a missing refresh token
Revoke(session_record) == [session_record EXCEPT !.revoked = TRUE]

\* `user_state.refresh_token_encrypted = ...; user_state.updated_at_epoch = int(time.time())`
StoreRefreshToken(user_state, encrypted, t) ==
    [user_state EXCEPT !.refresh_token_encrypted = encrypted, !.updated_at_epoch = t]

\* Where a handler stands after a stretch without awaits on the lock or the
\* bridge: the tables as committed, and whether it returned, raised or now
\* awaits the refresh grant with refresh_token.
Out(S, U, next, status_code, detail, token, user_key, refresh_token, status) ==
    [sessions |-> S, users |-> U, next |-> next, status_code |-> status_code,
     detail |-> detail, token |-> token, user_key |-> user_key,
     refresh_token |-> refresh_token, status |-> status]

(***************************************************************************)
(* get_bearer_token                                                        *)
(***************************************************************************)
\* From the lock to the refresh grant (or to the return or raise before it).
\* A get_bearer_token that asks for a refresh grant without a refresh token.
GetBearerTokenLockedRefreshingWithoutToken(S, U, session_id, force_refresh, t) ==
    IF ~SessionUsable(S, session_id)
    THEN Out(S, U, "raise", 401, AuthRequired, NoneVal, "", NoneVal, NoStatus)
    ELSE
    LET session_record == S[session_id]
        user_key == session_record.user_key
    IN  IF user_key \notin DOMAIN U
        THEN Out([S EXCEPT ![session_id] = Revoke(session_record)], U,
                 "raise", 401, AuthRequired, NoneVal, "", NoneVal, NoStatus)
        ELSE IF ~force_refresh /\ HasValidSessionToken(session_record, t)
        THEN LET touched == [S EXCEPT ![session_id].last_seen_epoch = t]
                 bearer == ResolveBearerToken(session_record)
             IN  IF ~Truthy(bearer)
                 THEN Out(touched, U, "raise", 401, AuthRequired, NoneVal, "", NoneVal, NoStatus)
                 ELSE Out(touched, U, "return", 0, "", bearer, user_key, NoneVal, NoStatus)
        ELSE Out(S, U, "bridge", 0, "", NoneVal, user_key,
                 Decrypt(U[user_key].refresh_token_encrypted), NoStatus)

GetBearerTokenLocked(S, U, session_id, force_refresh, t) ==
    IF ~SessionUsable(S, session_id)
    THEN Out(S, U, "raise", 401, AuthRequired, NoneVal, "", NoneVal, NoStatus)
    ELSE
    LET session_record == S[session_id]
        user_key == session_record.user_key
    IN  IF user_key \notin DOMAIN U
        THEN Out([S EXCEPT ![session_id] = Revoke(session_record)], U,
                 "raise", 401, AuthRequired, NoneVal, "", NoneVal, NoStatus)
        ELSE IF ~force_refresh /\ HasValidSessionToken(session_record, t)
        THEN LET touched == [S EXCEPT ![session_id].last_seen_epoch = t]
                 bearer == ResolveBearerToken(session_record)
             IN  IF ~Truthy(bearer)
                 THEN Out(touched, U, "raise", 401, AuthRequired, NoneVal, "", NoneVal, NoStatus)
                 ELSE Out(touched, U, "return", 0, "", bearer, user_key, NoneVal, NoStatus)
        ELSE LET refresh_token == Decrypt(U[user_key].refresh_token_encrypted)
             IN  IF ~Truthy(refresh_token)
                 THEN Out([S EXCEPT ![session_id] = Revoke(session_record)], U,
                          "raise", 401, SessionExpired, NoneVal, "", NoneVal, NoStatus)
                 ELSE Out(S, U, "bridge", 0, "", NoneVal, user_key, refresh_token, NoStatus)

\* From the answer of the refresh grant to the return or raise.
GetBearerTokenRefreshed(S, U, session_id, refresh_token, answer, t, nonce) ==
    LET session_record == S[session_id]
        user_key == session_record.user_key
        user_state == U[user_key]
    IN  IF answer.raised
        THEN IF answer.status_code \in RevokingStatusCodes
             THEN Out([S EXCEPT ![session_id] = Revoke(session_record)],
                      [U EXCEPT ![user_key] = StoreRefreshToken(user_state, NoneVal, t)],
                      "raise", 401, SessionExpired, NoneVal, "", refresh_token, NoStatus)
             ELSE Out(S, U, "raise", answer.status_code, answer.detail,
                      NoneVal, "", refresh_token, NoStatus)
        ELSE
        LET tokens == SessionTokensFromPayload(answer.payload, user_state.username,
                                               refresh_token, t)
        IN  IF tokens.raised
            THEN Out(S, U, "raise", tokens.status_code, tokens.detail,
                     NoneVal, "", refresh_token, NoStatus)
            ELSE Out([S EXCEPT ![session_id] = ApplyTokensToSession(session_record, tokens, t)],
                     [U EXCEPT ![user_key] =
                         StoreRefreshToken(user_state, Encrypt(tokens.refresh_token, nonce), t)],
                     "return", 0, "", BearerToken(tokens), user_key, refresh_token, NoStatus)

\* How the refresh grant ended: 200, or the status code of its HTTPException.
BridgeStatus(answer) == IF answer.raised THEN answer.status_code ELSE 200

\* The result a coroutine leaves when its handler ends with `out`; bridge is 0
\* when it made no refresh grant.
ResultOf(op, session_id, out, bridge) ==
    [proc |-> NoProc, op |-> op, sid |-> session_id, status_code |-> out.status_code,
     detail |-> out.detail, token |-> out.token, user_key |-> out.user_key,
     refreshed |-> bridge # 0, bridge |-> bridge,
     used_refresh_token |-> IF bridge # 0 THEN out.refresh_token ELSE NoneVal,
     status |-> out.status, force |-> FALSE, all_devices |-> FALSE]

\* A coroutine runs; every result has reached its caller.
Runs(p, op, pc) == result = NoResult /\ call[p].op = op /\ call[p].pc = pc

\* The handler of p returns or raises.
Finish(p, res) ==
    /\ call' = [call EXCEPT ![p] = Idle]
    /\ result' = [res EXCEPT !.proc = p]
    /\ lastRefresh' =
           IF res.op = "get_bearer_token" /\ res.status_code = 0
           THEN IF res.refreshed THEN [proc |-> p, sid |-> res.sid, force |-> res.force]
                ELSE IF res.sid = lastRefresh.sid THEN lastRefresh
                ELSE NoRefresh
           ELSE NoRefresh
    /\ expired' =
           IF res.op = "get_bearer_token" /\ res.detail = SessionExpired
           THEN expired \cup {res.sid} ELSE expired
    /\ UNCHANGED <<arg, ret>>

\* The handler of p goes on to its next await.
Continue(p, c) ==
    /\ call' = [call EXCEPT ![p] = c]
    /\ result' = NoResult
    /\ lastRefresh' = NoRefresh
    /\ UNCHANGED <<expired, arg, ret>>

\* The caller of the handler that ended takes its result.
Return ==
    /\ result # NoResult
    /\ result' = NoResult
    /\ UNCHANGED <<sessions, users, lock, call, lastRefresh, expired, now, nextSid, issued,
                   arg, ret, preferences, autoBackfill, request, bootstrapCache>>

\* The call with an empty session id: refused before the lock is asked for.
GetBearerTokenNoSession(p) ==
    /\ Runs(p, "none", "idle")
    /\ Finish(p, [NoResult EXCEPT !.op = "get_bearer_token", !.status_code = 401,
                                  !.detail = AuthRequired])
    /\ UNCHANGED <<sessions, users, lock, now, nextSid, issued, preferences, autoBackfill,
                   request, bootstrapCache>>

\* The call gets the lock and runs to the refresh grant, or to its end.
GetBearerToken(p, session_id, force_refresh) ==
    /\ Runs(p, "none", "idle")
    /\ session_id # EmptySid
    /\ CanAcquire(p)
    /\ LET out == GetBearerTokenLocked(sessions, users, session_id, force_refresh, now)
       IN  /\ sessions' = out.sessions
           /\ users' = out.users
           /\ IF out.next = "bridge"
              THEN /\ lock' = LockWhileRefreshing(p)
                   /\ Continue(p, [Idle EXCEPT !.op = "get_bearer_token", !.pc = "bridge",
                                               !.sid = session_id, !.force = force_refresh,
                                               !.refresh_token = out.refresh_token])
              ELSE /\ lock' = NoProc
                   /\ Finish(p, [ResultOf("get_bearer_token", session_id, out, 0)
                                    EXCEPT !.force = force_refresh])
    /\ UNCHANGED <<now, nextSid, issued, preferences, autoBackfill, request, bootstrapCache>>

\* The refresh grant answers; the handler commits and releases the lock.
GetBearerTokenRefresh(p, response) ==
    /\ Runs(p, "get_bearer_token", "bridge")
    /\ response.kind = "json" => issued < MaxIssued
    /\ issued' = IF response.kind = "json" THEN issued + 1 ELSE issued
    /\ LET answer == OAuthRefreshTokens(response, issued + 1)
           out == GetBearerTokenRefreshed(sessions, users, call[p].sid,
                                          call[p].refresh_token, answer, now, issued + 1)
       IN  /\ sessions' = out.sessions
           /\ users' = out.users
           /\ Finish(p, [ResultOf("get_bearer_token", call[p].sid, out, BridgeStatus(answer))
                            EXCEPT !.force = call[p].force])
    /\ lock' = NoProc
    /\ UNCHANGED <<now, nextSid, preferences, autoBackfill, request, bootstrapCache>>

(***************************************************************************)
(* status                                                                  *)
(***************************************************************************)
StatusLocked(S, U, session_id, t) ==
    IF ~SessionUsable(S, session_id)
    THEN Out(S, U, "return", 0, "", NoneVal, "", NoneVal, AnonymousStatus)
    ELSE
    LET session_record == S[session_id]
        user_key == session_record.user_key
    IN  IF user_key \notin DOMAIN U
        THEN Out([S EXCEPT ![session_id] = Revoke(session_record)], U,
                 "return", 0, "", NoneVal, "", NoneVal, AnonymousStatus)
        ELSE
        LET user_state == U[user_key]
            has_refresh_token == Truthy(Decrypt(user_state.refresh_token_encrypted))
            username == user_state.username
            refresh_token == Decrypt(user_state.refresh_token_encrypted)
        IN  IF HasValidSessionToken(session_record, t)
            THEN Out([S EXCEPT ![session_id].last_seen_epoch = t], U, "return", 0, "",
                     NoneVal, user_key, NoneVal,
                     Status(TRUE, "session", has_refresh_token, username, "ok", FALSE))
            ELSE IF ~Truthy(refresh_token)
            THEN Out([S EXCEPT ![session_id] = Revoke(session_record)], U, "return", 0, "",
                     NoneVal, user_key, NoneVal,
                     Status(FALSE, "session", FALSE, username, "expired", TRUE))
            ELSE Out(S, U, "bridge", 0, "", NoneVal, user_key, refresh_token, NoStatus)

\* A status that takes every failure of the refresh grant for a refusal.
StatusRefreshedRevokingOnAnyFailure(S, U, session_id, refresh_token, answer, t, nonce) ==
    LET session_record == S[session_id]
        user_key == session_record.user_key
        user_state == U[user_key]
        username == user_state.username
    IN  IF answer.raised
        THEN Out([S EXCEPT ![session_id] = Revoke(session_record)],
                 [U EXCEPT ![user_key] = StoreRefreshToken(user_state, NoneVal, t)],
                 "return", 0, "", NoneVal, user_key, refresh_token,
                 Status(FALSE, "session", FALSE, username, "expired", TRUE))
        ELSE
        LET tokens == SessionTokensFromPayload(answer.payload, username, refresh_token, t)
        IN  IF tokens.raised
            THEN Out(S, U, "raise", tokens.status_code, tokens.detail,
                     NoneVal, "", refresh_token, NoStatus)
            ELSE Out([S EXCEPT ![session_id] = ApplyTokensToSession(session_record, tokens, t)],
                     [U EXCEPT ![user_key] =
                         StoreRefreshToken(user_state, Encrypt(tokens.refresh_token, nonce), t)],
                     "return", 0, "", NoneVal, user_key, refresh_token,
                     Status(TRUE, "session", Truthy(tokens.refresh_token), username,
                            "ok", FALSE))

StatusRefreshed(S, U, session_id, refresh_token, answer, t, nonce) ==
    LET session_record == S[session_id]
        user_key == session_record.user_key
        user_state == U[user_key]
        username == user_state.username
    IN  IF answer.raised
        THEN IF answer.status_code \in RevokingStatusCodes
             THEN Out([S EXCEPT ![session_id] = Revoke(session_record)],
                      [U EXCEPT ![user_key] = StoreRefreshToken(user_state, NoneVal, t)],
                      "return", 0, "", NoneVal, user_key, refresh_token,
                      Status(FALSE, "session", FALSE, username, "expired", TRUE))
             ELSE Out(S, U, "return", 0, "", NoneVal, user_key, refresh_token,
                      Status(FALSE, "session", TRUE, username, "network_error", FALSE))
        ELSE
        LET tokens == SessionTokensFromPayload(answer.payload, username, refresh_token, t)
        IN  IF tokens.raised
            THEN Out(S, U, "raise", tokens.status_code, tokens.detail,
                     NoneVal, "", refresh_token, NoStatus)
            ELSE Out([S EXCEPT ![session_id] = ApplyTokensToSession(session_record, tokens, t)],
                     [U EXCEPT ![user_key] =
                         StoreRefreshToken(user_state, Encrypt(tokens.refresh_token, nonce), t)],
                     "return", 0, "", NoneVal, user_key, refresh_token,
                     Status(TRUE, "session", Truthy(tokens.refresh_token), username,
                            "ok", FALSE))

\* login ends with `status = await self.status(session_id)`: its caller gets
\* what that status call returns or raises.
StatusOps == {"status", "login_status"}
ReportedOp(op) == IF op = "login_status" THEN "login" ELSE op

StatusNoSession(p) ==
    /\ Runs(p, "none", "idle")
    /\ Finish(p, [NoResult EXCEPT !.op = "status", !.status = AnonymousStatus])
    /\ UNCHANGED <<sessions, users, lock, now, nextSid, issued, preferences, autoBackfill,
                   request, bootstrapCache>>

\* What status does once it has the lock, for a call of its own (op "status")
\* or as the last statement of login (op "login_status").
StatusRun(p, op, session_id) ==
    /\ CanAcquire(p)
    /\ LET out == StatusLocked(sessions, users, session_id, now)
       IN  /\ sessions' = out.sessions
           /\ users' = out.users
           /\ IF out.next = "bridge"
              THEN /\ lock' = LockWhileRefreshing(p)
                   /\ Continue(p, [Idle EXCEPT !.op = op, !.pc = "bridge", !.sid = session_id,
                                               !.refresh_token = out.refresh_token])
              ELSE /\ lock' = NoProc
                   /\ Finish(p, ResultOf(ReportedOp(op), session_id, out, 0))
    /\ UNCHANGED <<now, nextSid, issued, preferences, autoBackfill, request, bootstrapCache>>

StatusCall(p, session_id) ==
    /\ Runs(p, "none", "idle")
    /\ session_id # EmptySid
    /\ StatusRun(p, "status", session_id)

StatusRefresh(p, response) ==
    /\ \E op \in StatusOps : Runs(p, op, "bridge")
    /\ response.kind = "json" => issued < MaxIssued
    /\ issued' = IF response.kind = "json" THEN issued + 1 ELSE issued
    /\ LET answer == OAuthRefreshTokens(response, issued + 1)
           out == StatusRefreshed(sessions, users, call[p].sid,
                                  call[p].refresh_token, answer, now, issued + 1)
       IN  /\ sessions' = out.sessions
           /\ users' = out.users
           /\ Finish(p, ResultOf(ReportedOp(call[p].op), call[p].sid, out, BridgeStatus(answer)))
    /\ lock' = NoProc
    /\ UNCHANGED <<now, nextSid, preferences, autoBackfill, request, bootstrapCache>>

(***************************************************************************)
(* logout                                                                  *)
(***************************************************************************)
\* A logout that clears the stored refresh token for one device too.
LogoutRowsAlwaysClearing(S, U, session_id, all_devices, t) ==
    LET session_record == S[session_id]
        user_key == session_record.user_key
        rows == IF all_devices THEN RowsOfUser(S, session_id, user_key) ELSE {session_id}
    IN  Out([s \in DOMAIN S |-> IF s \in rows THEN Revoke(S[s]) ELSE S[s]],
            IF user_key \in DOMAIN U
            THEN [U EXCEPT ![user_key] = StoreRefreshToken(U[user_key], NoneVal, t)]
            ELSE U,
            "return", 0, "", NoneVal, user_key, NoneVal, AnonymousStatus)

\* What logout commits for a session row it has found.
LogoutRows(S, U, session_id, all_devices, t) ==
    LET session_record == S[session_id]
        user_key == session_record.user_key
    IN  IF all_devices
        THEN Out([s \in DOMAIN S |->
                     IF s \in RowsOfUser(S, session_id, user_key) THEN Revoke(S[s]) ELSE S[s]],
                 IF user_key \in DOMAIN U
                 THEN [U EXCEPT ![user_key] = StoreRefreshToken(U[user_key], NoneVal, t)]
                 ELSE U,
                 "return", 0, "", NoneVal, user_key, NoneVal, AnonymousStatus)
        ELSE Out([S EXCEPT ![session_id] = Revoke(session_record)], U,
                 "return", 0, "", NoneVal, user_key, NoneVal, AnonymousStatus)

\* A logout that takes every call for all_devices=True.
LogoutLockedEveryDevice(S, U, session_id, all_devices, t) ==
    IF session_id \notin DOMAIN S
    THEN Out(S, U, "return", 0, "", NoneVal, "", NoneVal, AnonymousStatus)
    ELSE LogoutRows(S, U, session_id, TRUE, t)

\* A logout that, told all_devices=True with a session id it cannot find,
\* revokes every session there is.
LogoutLockedUnguarded(S, U, session_id, all_devices, t) ==
    IF session_id \notin DOMAIN S
    THEN Out(IF all_devices THEN [s \in DOMAIN S |-> Revoke(S[s])] ELSE S, U,
             "return", 0, "", NoneVal, "", NoneVal, AnonymousStatus)
    ELSE LogoutRows(S, U, session_id, all_devices, t)

\* A logout that returns at once when the session it is given is revoked.
LogoutLockedSkippingRevoked(S, U, session_id, all_devices, t) ==
    IF session_id \notin DOMAIN S \/ S[session_id].revoked
    THEN Out(S, U, "return", 0, "", NoneVal, "", NoneVal, AnonymousStatus)
    ELSE LogoutRows(S, U, session_id, all_devices, t)

\* logout, from the lock to its return
LogoutLocked(S, U, session_id, all_devices, t) ==
    IF session_id \notin DOMAIN S
    THEN Out(S, U, "return", 0, "", NoneVal, "", NoneVal, AnonymousStatus)
    ELSE LogoutRows(S, U, session_id, all_devices, t)

LogoutNoSession(p) ==
    /\ Runs(p, "none", "idle")
    /\ Finish(p, [NoResult EXCEPT !.op = "logout", !.status = AnonymousStatus])
    /\ UNCHANGED <<sessions, users, lock, now, nextSid, issued, preferences, autoBackfill,
                   request, bootstrapCache>>

Logout(p, session_id, all_devices) ==
    /\ Runs(p, "none", "idle")
    /\ session_id # EmptySid
    /\ CanAcquire(p)
    /\ LET out == LogoutLocked(sessions, users, session_id, all_devices, now)
       IN  /\ sessions' = out.sessions
           /\ users' = out.users
           /\ Finish(p, [ResultOf("logout", session_id, out, 0)
                            EXCEPT !.all_devices = all_devices])
    /\ lock' = NoProc
    /\ UNCHANGED <<now, nextSid, issued, preferences, autoBackfill, request, bootstrapCache>>

(***************************************************************************)
(* get_user_key_for_session: one read, outside the lock                    *)
(***************************************************************************)
GetUserKeyForSession(p, session_id) ==
    /\ Runs(p, "none", "idle")
    /\ Finish(p, [NoResult EXCEPT
                     !.op = "get_user_key_for_session", !.sid = session_id,
                     !.user_key = IF session_id # EmptySid /\ SessionUsable(sessions, session_id)
                                  THEN sessions[session_id].user_key ELSE ""])
    /\ UNCHANGED <<sessions, users, lock, now, nextSid, issued, preferences, autoBackfill,
                   request, bootstrapCache>>

(***************************************************************************)
(* login                                                                   *)
(***************************************************************************)
\* email.strip() without .lower()
NormalizeEmailKeepingCase(email) ==
    CASE email = "  " -> ""
      [] email = " U1 " -> "U1"
      [] OTHER -> email

\* email.strip().lower()
NormalizeEmail(email) ==
    CASE email = "  " -> ""
      [] email = " U1 " -> "u1"
      [] OTHER -> email

\* Validation, then the credential flow is started; no lock is held.
LoginCall(p, email, password, persist_refresh_token) ==
    /\ Runs(p, "none", "idle")
    /\ LET normalized_email == NormalizeEmail(email)
       IN  IF normalized_email = ""
           THEN Finish(p, [NoResult EXCEPT !.op = "login", !.status_code = 422,
                                           !.detail = "Email is required."])
           ELSE IF password = ""
           THEN Finish(p, [NoResult EXCEPT !.op = "login", !.status_code = 422,
                                           !.detail = "Password is required."])
           ELSE Continue(p, [Idle EXCEPT !.op = "login", !.pc = "bridge",
                                         !.user_key = normalized_email,
                                         !.persist = persist_refresh_token])
    /\ UNCHANGED <<sessions, users, lock, now, nextSid, issued, preferences, autoBackfill,
                   request, bootstrapCache>>

\* The credential flow answers; tokens, session id and now_epoch are computed
\* before the lock is asked for.
LoginBridge(p, response) ==
    /\ Runs(p, "login", "bridge")
    /\ response.kind = "json" => issued < MaxIssued
    /\ issued' = IF response.kind = "json" THEN issued + 1 ELSE issued
    /\ LET answer == OAuthLoginWithCredentials(response, issued + 1)
           tokens == IF answer.raised THEN answer
                     ELSE SessionTokensFromPayload(answer.payload, call[p].user_key,
                                                   NoneVal, now)
       IN  IF tokens.raised
           THEN /\ Finish(p, [NoResult EXCEPT !.op = "login",
                                              !.status_code = tokens.status_code,
                                              !.detail = tokens.detail])
                /\ UNCHANGED nextSid
           ELSE /\ nextSid < MaxSessions
                /\ nextSid' = nextSid + 1
                /\ Continue(p, [call[p] EXCEPT !.pc = "wait", !.tokens = tokens,
                                               !.sid = MintSessionId(nextSid),
                                               !.now_epoch = now,
                                               !.nonce = issued + 1])
    /\ UNCHANGED <<sessions, users, lock, now, preferences, autoBackfill, request, bootstrapCache>>

\* A login that stores the refresh token whatever persist_refresh_token says.
LoginUserStateAlwaysPersisting(U, c) ==
    [refresh_token_encrypted |-> Encrypt(c.tokens.refresh_token, c.nonce),
     username |-> c.user_key,
     updated_at_epoch |-> c.now_epoch]

\* The rows login commits under the lock.
LoginUserState(U, c) ==
    [refresh_token_encrypted |->
         IF c.persist THEN Encrypt(c.tokens.refresh_token, c.nonce) ELSE NoneVal,
     username |-> c.user_key,
     updated_at_epoch |-> c.now_epoch]

\* A login that writes the session row without its owner.
LoginSessionRecordWithoutOwner(c, t) ==
    [user_key |-> "",
     access_token |-> c.tokens.access_token,
     id_token |-> c.tokens.id_token,
     expires_at_epoch |-> c.tokens.expires_at_epoch,
     last_seen_epoch |-> t,
     revoked |-> FALSE]

LoginSessionRecord(c, t) ==
    [user_key |-> c.user_key,
     access_token |-> c.tokens.access_token,
     id_token |-> c.tokens.id_token,
     expires_at_epoch |-> c.tokens.expires_at_epoch,
     last_seen_epoch |-> t,
     revoked |-> FALSE]

\* A write of one row that drops every other row of the table.
PutAlone(table, key, row) == [k \in {key} |-> row]

Put(table, key, row) == [k \in DOMAIN table \cup {key} |-> IF k = key THEN row ELSE table[k]]

\* A login that awaits status inside its `async with self._lock` block.
LockKeptForLoginStatus(p) == p

\* login leaves its `async with self._lock` block before it awaits status.
LockAfterLoginCommit(p) == NoProc

LoginCommit(p) ==
    /\ Runs(p, "login", "wait")
    /\ CanAcquire(p)
    /\ users' = Put(users, call[p].user_key, LoginUserState(users, call[p]))
    /\ sessions' = Put(sessions, call[p].sid, LoginSessionRecord(call[p], now))
    /\ lock' = LockAfterLoginCommit(p)
    /\ Continue(p, [Idle EXCEPT !.op = "login_status", !.pc = "wait", !.sid = call[p].sid,
                                 !.persist = call[p].persist])
    /\ UNCHANGED <<now, nextSid, issued, preferences, autoBackfill, request, bootstrapCache>>

\* `status = await self.status(session_id=session_id)`
LoginStatus(p) ==
    /\ Runs(p, "login_status", "wait")
    /\ StatusRun(p, "login_status", call[p].sid)

(***************************************************************************)
(* The specification.                                                      *)
(***************************************************************************)
Emails == {"", "  ", " U1 "}
Passwords == {"", "secret-password"}

\* What coroutine p can do next, logging in with one of emails.
Step(p, emails) ==
    \/ GetBearerTokenNoSession(p)
    \/ \E session_id \in SessionIds, force_refresh \in BOOLEAN :
           GetBearerToken(p, session_id, force_refresh)
    \/ \E response \in RefreshResponses : GetBearerTokenRefresh(p, response)
    \/ StatusNoSession(p)
    \/ \E session_id \in SessionIds : StatusCall(p, session_id)
    \/ \E response \in RefreshResponses : StatusRefresh(p, response)
    \/ LogoutNoSession(p)
    \/ \E session_id \in SessionIds, all_devices \in BOOLEAN :
           Logout(p, session_id, all_devices)
    \/ \E session_id \in SidInputs : GetUserKeyForSession(p, session_id)
    \/ \E email \in emails, password \in Passwords, persist \in BOOLEAN :
           LoginCall(p, email, password, persist)
    \/ \E response \in LoginResponses : LoginBridge(p, response)
    \/ LoginCommit(p)
    \/ LoginStatus(p)

Next ==
    \/ Tick
    \/ Return
    \/ \E p \in Procs : Step(p, Emails)

Spec == Init /\ [][Next]_vars

\* What a call of coroutine p that is under way does next: the answer of the
\* bridge it awaits, or the lock it waits for.
Advance(p) ==
    \/ \E response \in RefreshResponses : GetBearerTokenRefresh(p, response)
    \/ \E response \in RefreshResponses : StatusRefresh(p, response)
    \/ \E response \in LoginResponses : LoginBridge(p, response)
    \/ LoginCommit(p)
    \/ LoginStatus(p)

\* The calls the manager takes under the lock, on a clock that stands still.
CallStep(p) ==
    \/ \E session_id \in SessionIds, force_refresh \in BOOLEAN :
           GetBearerToken(p, session_id, force_refresh)
    \/ \E session_id \in SessionIds : StatusCall(p, session_id)
    \/ \E session_id \in SessionIds, all_devices \in BOOLEAN :
           Logout(p, session_id, all_devices)
    \/ LoginCall(p, " U1 ", "secret-password", TRUE)
    \/ Advance(p)

NextCalls ==
    \/ Return
    \/ \E p \in Procs : CallStep(p)

\* The event loop runs every coroutine that can go on: an awaited bridge call
\* returns or raises in the end, asyncio.Lock wakes its waiters in the order
\* they came, and a result is handed to its caller.
FairSpec ==
    /\ Init /\ [][NextCalls]_vars
    /\ WF_vars(Return)
    /\ \A p \in Procs : SF_vars(Advance(p))

(***************************************************************************)
(* _map_oauth_token_error on its own: one call on any error response of    *)
(* the token endpoint.                                                     *)
(***************************************************************************)
\* The status codes with which the token endpoint can refuse (>= 400).
TokenErrorStatusCodes == {400, 401, 403, 404, 409, 429, 500, 502, 503}

\* The bodies of such a response: a JSON object with or without "error",
\* JSON that is no object, or no JSON at all.
TokenErrorBodies ==
    [kind : {"dict"}, error : ErrorCodes \cup {" Invalid_Grant ", "UNSUPPORTED_GRANT_TYPE"}]
    \cup [kind : {"non_dict", "non_json"}, error : {""}]

\* error_code as _map_oauth_token_error reads it off the body
ErrorCodeOf(body) == IF body.kind = "dict" THEN body.error ELSE ""

InitClassifier ==
    /\ sessions = <<>>
    /\ users = <<>>
    /\ lock = NoProc
    /\ call = [p \in Procs |-> Idle]
    /\ result = NoResult
    /\ lastRefresh = NoRefresh
    /\ expired = {}
    /\ now = 0
    /\ nextSid = 0
    /\ issued = 0
    /\ arg \in [f : {"_map_oauth_token_error"}, status_code : TokenErrorStatusCodes,
                 body : TokenErrorBodies, context : {"refresh", "login"}]
    /\ ret = NoRet
    /\ preferences = <<>>
    /\ autoBackfill = NoAutoBackfill
    /\ request = NoRequest
    /\ bootstrapCache = <<>>

\* raise _map_oauth_token_error(response, context=...)
Classify ==
    /\ arg.f = "_map_oauth_token_error"
    /\ ret = NoRet
    /\ ret' = [f |-> arg.f,
               status_code |-> MapOAuthTokenError(arg.status_code, ErrorCodeOf(arg.body))]
    /\ UNCHANGED <<sessions, users, lock, call, result, lastRefresh, expired, now, nextSid,
                   issued, arg, preferences, autoBackfill, request, bootstrapCache>>

NextClassifier == Classify

SpecClassifier == InitClassifier /\ [][NextClassifier]_vars

(***************************************************************************)
(* _session_tokens_from_payload on its own: one call on any token payload. *)
(***************************************************************************)
\* What the "expires_in" of a token payload can be.
ExpiresInInputs ==
    {ExpMissing, ExpJunk, ExpInf, ExpBool(1), ExpDigits(300), ExpFloat(599), ExpFloat(-5),
     ExpFloat(1207)}
    \cup {ExpInt(v) : v \in {-5, 0, 59, 60, 61, 120, 121, 3600}}

InitLifetime ==
    /\ sessions = <<>>
    /\ users = <<>>
    /\ lock = NoProc
    /\ call = [p \in Procs |-> Idle]
    /\ result = NoResult
    /\ lastRefresh = NoRefresh
    /\ expired = {}
    /\ now \in {0, TickSeconds}
    /\ nextSid = 0
    /\ issued = 0
    /\ arg \in [f : {"_session_tokens_from_payload"},
                 shape : {Shape(id, access, "new", expires_in) :
                              id \in {"new", "none"}, access \in {"new", "none"},
                              expires_in \in ExpiresInInputs},
                 fallback_refresh_token : {NoneVal}]
    /\ ret = NoRet
    /\ preferences = <<>>
    /\ autoBackfill = NoAutoBackfill
    /\ request = NoRequest
    /\ bootstrapCache = <<>>

\* tokens = self._session_tokens_from_payload(...)
ParseTokens ==
    /\ arg.f = "_session_tokens_from_payload"
    /\ ret = NoRet
    /\ ret' = [f |-> arg.f,
               tokens |-> SessionTokensFromPayload(PayloadOf(arg.shape, 1), "u1",
                                                   arg.fallback_refresh_token, now)]
    /\ UNCHANGED <<sessions, users, lock, call, result, lastRefresh, expired, now, nextSid,
                   issued, arg, preferences, autoBackfill, request, bootstrapCache>>

NextLifetime == ParseTokens

SpecLifetime == InitLifetime /\ [][NextLifetime]_vars

(***************************************************************************)
(* TokenCipher on its own: encrypt followed by decrypt, or decrypt of a    *)
(* value that encrypt of this process did not produce.                     *)
(***************************************************************************)
\* The IV and timestamp of a Fernet token.
Nonces == 1..3

\* Plaintexts: None, "", white space, and tokens with and without white
\* space around them.
Plaintexts ==
    {NoneVal, Empty, Blank}
    \cup {Str(k, n, pad) : k \in {"refresh", "id", "access"}, n \in 1..3, pad \in BOOLEAN}

\* Stored values no encrypt of this process has produced: text that is no
\* Fernet token, and tokens of another key.
BadCiphertexts ==
    {Tok("garbage", n) : n \in 1..3}
    \cup {Str("garbage", n, TRUE) : n \in 1..3}
    \cup {ForeignCiphertext(Tok("refresh", n), nonce) : n \in 1..3, nonce \in Nonces}

InitCipher ==
    /\ sessions = <<>>
    /\ users = <<>>
    /\ lock = NoProc
    /\ call = [p \in Procs |-> Idle]
    /\ result = NoResult
    /\ lastRefresh = NoRefresh
    /\ expired = {}
    /\ now = 0
    /\ nextSid = 0
    /\ issued = 0
    /\ arg \in [f : {"encrypt"}, x : Plaintexts] \cup [f : {"decrypt"}, x : BadCiphertexts]
    /\ ret = NoRet
    /\ preferences = <<>>
    /\ autoBackfill = NoAutoBackfill
    /\ request = NoRequest
    /\ bootstrapCache = <<>>

\* self._token_cipher.encrypt(x)
CipherEncrypt(nonce) ==
    /\ arg.f = "encrypt"
    /\ ret = NoRet
    /\ ret' = [f |-> "encrypt", value |-> Encrypt(arg.x, nonce)]
    /\ UNCHANGED <<sessions, users, lock, call, result, lastRefresh, expired, now, nextSid,
                   issued, arg, preferences, autoBackfill, request, bootstrapCache>>

\* self._token_cipher.decrypt(...) of what encrypt returned, or of the stored
\* value given
CipherDecrypt ==
    /\ \/ arg.f = "encrypt" /\ ret.f = "encrypt"
       \/ arg.f = "decrypt" /\ ret = NoRet
    /\ ret' = [f |-> "decrypt",
               value |-> Decrypt(IF arg.f = "encrypt" THEN ret.value ELSE arg.x)]
    /\ UNCHANGED <<sessions, users, lock, call, result, lastRefresh, expired, now, nextSid,
                   issued, arg, preferences, autoBackfill, request, bootstrapCache>>

NextCipher ==
    \/ \E nonce \in Nonces : CipherEncrypt(nonce)
    \/ CipherDecrypt

SpecCipher == InitCipher /\ [][NextCipher]_vars

(***************************************************************************)
(* Preferences: get_preferences and update_preferences.  Neither takes the *)
(* manager's lock; each is cut at its awaits on the database, the read     *)
(* (db.get) and the write (db.commit).                                     *)
(***************************************************************************)
\* An item of pinned_task_ids: a str, or an int written by its digits.
StrItem(v) == [t |-> "str", v |-> v]
IntItem(digits) == [t |-> "int", v |-> digits]

\* `str(item)`
StrOf(item) == StrItem(item.v)

\* `[str(item) for item in pinned_task_ids]`
NormalizePins(pinned_task_ids) ==
    [i \in 1..Len(pinned_task_ids) |-> StrOf(pinned_task_ids[i])]

\* json.dumps of a list of strings, and what UserPreferences.pinned_task_ids
\* reads back from it
DumpPins(pins) == [json |-> "list", items |-> pins]
LoadPins(pinned_task_ids_json) ==
    IF pinned_task_ids_json.json = "list" THEN pinned_task_ids_json.items ELSE <<>>

\* json.dumps of the task_ui_preferences map (keys stringified), and what
\* UserPreferences.task_ui_preferences reads back from it
DumpTaskUi(task_ui_preferences) == [json |-> "dict", items |-> task_ui_preferences]
LoadTaskUi(task_ui_preferences_json) ==
    IF task_ui_preferences_json.json = "dict" THEN task_ui_preferences_json.items ELSE "{}"

\* user_key.strip().lower()
NormalizeUserKey(user_key) ==
    CASE user_key = "  " -> ""
      [] user_key = " U1 " -> "u1"
      [] OTHER -> user_key

\* expected_version: None, or an int
NoExpectedVersion == [given |-> FALSE, v |-> 0]
ExpectedVersion(v) == [given |-> TRUE, v |-> v]

\* PreferencesPayload
PreferencesPayload(pinned_task_ids, task_ui_preferences, version, updated_at_epoch) ==
    [pinned_task_ids |-> pinned_task_ids, task_ui_preferences |-> task_ui_preferences,
     version |-> version, updated_at_epoch |-> updated_at_epoch]
NoPayload == PreferencesPayload(<<>>, "{}", 0, 0)

\* UserPreferences(...)
UserPreferencesRow(pinned_task_ids_json, task_ui_preferences_json, version, updated_at_epoch) ==
    [pinned_task_ids_json |-> pinned_task_ids_json,
     task_ui_preferences_json |-> task_ui_preferences_json,
     version |-> version, updated_at_epoch |-> updated_at_epoch]

\* What a preferences handler returns or raises.
PreferencesResult(op, user_key, expected_version, status_code, detail, payload) ==
    [proc |-> NoProc, op |-> op, user_key |-> user_key, expected_version |-> expected_version,
     status_code |-> status_code, detail |-> detail, payload |-> payload]

VersionConflictDetail == "Preferences update conflict. Reload latest preferences and retry."

\* The locals of a preferences handler between its read and its write.
PreferencesCall(op, user_key, pins, task_ui, expected_version, base_version, has_row) ==
    [op |-> op, pc |-> "commit", user_key |-> user_key, pins |-> pins, task_ui |-> task_ui,
     expected_version |-> expected_version, base_version |-> base_version,
     has_row |-> has_row, now_epoch |-> now]

\* get_preferences to its read: the row found is returned, a missing one is
\* about to be inserted.
GetPreferences(p, user_key, fallback_pinned_task_ids) ==
    /\ Runs(p, "none", "idle")
    /\ LET normalized_user_key == NormalizeUserKey(user_key)
           fallback_pins == NormalizePins(fallback_pinned_task_ids)
       IN  IF normalized_user_key = ""
           THEN Finish(p, PreferencesResult("get_preferences", normalized_user_key,
                                            NoExpectedVersion, 422, "Missing user key.",
                                            NoPayload))
           ELSE IF normalized_user_key \in DOMAIN preferences
           THEN LET row == preferences[normalized_user_key]
                IN  Finish(p, PreferencesResult(
                                  "get_preferences", normalized_user_key, NoExpectedVersion,
                                  0, "",
                                  PreferencesPayload(LoadPins(row.pinned_task_ids_json),
                                                     LoadTaskUi(row.task_ui_preferences_json),
                                                     row.version, row.updated_at_epoch)))
           ELSE Continue(p, PreferencesCall("get_preferences", normalized_user_key,
                                            fallback_pins, "{}", NoExpectedVersion, 0, FALSE))
    /\ UNCHANGED <<sessions, users, lock, now, nextSid, issued, preferences, autoBackfill,
                   request, bootstrapCache>>

\* get_preferences commits the row it added; the primary key refuses a
\* second row of the same user.
GetPreferencesCommit(p) ==
    /\ Runs(p, "get_preferences", "commit")
    /\ LET c == call[p]
       IN  IF c.user_key \in DOMAIN preferences
           THEN /\ Finish(p, PreferencesResult("get_preferences", c.user_key,
                                               NoExpectedVersion, 500, "IntegrityError",
                                               NoPayload))
                /\ UNCHANGED preferences
           ELSE /\ preferences' =
                       Put(preferences, c.user_key,
                           UserPreferencesRow(DumpPins(c.pins), DumpTaskUi("{}"), 1,
                                              c.now_epoch))
                /\ Finish(p, PreferencesResult("get_preferences", c.user_key,
                                               NoExpectedVersion, 0, "",
                                               PreferencesPayload(c.pins, "{}", 1, c.now_epoch)))
    /\ UNCHANGED <<sessions, users, lock, now, nextSid, issued, autoBackfill,
                   request, bootstrapCache>>

\* A check that lets every expected_version pass.
VersionConflictNever(expected_version, base_version) == FALSE

\* `if expected_version is not None and expected_version != base_version`
VersionConflict(expected_version, base_version) ==
    expected_version.given /\ expected_version.v # base_version

\* update_preferences to its read: the version check on the row as read.
UpdatePreferences(p, user_key, pinned_task_ids, task_ui_preferences, expected_version) ==
    /\ Runs(p, "none", "idle")
    /\ LET normalized_user_key == NormalizeUserKey(user_key)
           normalized_pins == NormalizePins(pinned_task_ids)
           has_row == normalized_user_key \in DOMAIN preferences
           base_version == IF has_row THEN preferences[normalized_user_key].version ELSE 0
       IN  IF normalized_user_key = ""
           THEN Finish(p, PreferencesResult("update_preferences", normalized_user_key,
                                            expected_version, 422, "Missing user key.",
                                            NoPayload))
           ELSE IF VersionConflict(expected_version, base_version)
           THEN Finish(p, PreferencesResult("update_preferences", normalized_user_key,
                                            expected_version, 409, VersionConflictDetail,
                                            NoPayload))
           ELSE /\ base_version < MaxVersion
                /\ Continue(p, PreferencesCall("update_preferences", normalized_user_key,
                                               normalized_pins, task_ui_preferences,
                                               expected_version, base_version, has_row))
    /\ UNCHANGED <<sessions, users, lock, now, nextSid, issued, preferences, autoBackfill,
                   request, bootstrapCache>>

\* update_preferences commits: the row it read is written with next_version,
\* a row it added is inserted unless the primary key refuses it.
UpdatePreferencesCommit(p) ==
    /\ Runs(p, "update_preferences", "commit")
    /\ LET c == call[p]
           next_version == c.base_version + 1
       IN  IF ~c.has_row /\ c.user_key \in DOMAIN preferences
           THEN /\ Finish(p, PreferencesResult("update_preferences", c.user_key,
                                               c.expected_version, 500, "IntegrityError",
                                               NoPayload))
                /\ UNCHANGED preferences
           ELSE /\ preferences' =
                       Put(preferences, c.user_key,
                           UserPreferencesRow(DumpPins(c.pins), DumpTaskUi(c.task_ui),
                                              next_version, c.now_epoch))
                /\ Finish(p, PreferencesResult("update_preferences", c.user_key,
                                               c.expected_version, 0, "",
                                               PreferencesPayload(c.pins, c.task_ui,
                                                                  next_version, c.now_epoch)))
    /\ UNCHANGED <<sessions, users, lock, now, nextSid, issued, autoBackfill,
                   request, bootstrapCache>>

PreferencesUserKeys == {"  ", " U1 "}
PinInputs == {<<StrItem("a"), StrItem("b")>>, <<IntItem("7")>>}
TaskUiInputs == {"{}", "x_small"}
ExpectedVersions == {NoExpectedVersion} \cup {ExpectedVersion(v) : v \in 0..MaxVersion}

NextPreferences ==
    \/ Return
    \/ \E p \in Procs :
           \/ \E user_key \in PreferencesUserKeys, fallback \in PinInputs :
                  GetPreferences(p, user_key, fallback)
           \/ GetPreferencesCommit(p)
           \/ \E user_key \in PreferencesUserKeys, pins \in PinInputs,
                 task_ui \in TaskUiInputs, expected_version \in ExpectedVersions :
                  UpdatePreferences(p, user_key, pins, task_ui, expected_version)
           \/ UpdatePreferencesCommit(p)

SpecPreferences == Init /\ [][NextPreferences]_vars

(***************************************************************************)
(* ct_auto_backfill: maybe_schedule_on_login and the job it starts.  The   *)
(* blocks under _AUTO_BACKFILL_LOCK hold no await, so each is one step and *)
(* the lock is free whenever a coroutine asks for it.  autoBackfill holds  *)
(* the setting, the local day, the content of the state file and the jobs  *)
(* running, and for the properties: how many calls returned scheduled=True *)
(* on each day, whether a write of the state file was dropped, whether a   *)
(* job ended on a later day than the one it was started on.               *)
(***************************************************************************)
\* _load_json of a state file that is not there: {}
EmptyState == [last_attempt_day |-> 0, last_status |-> ""]

\* _write_json: the payload is in the file, unless the write raised OSError,
\* which is dropped
WriteJson(content, payload, written) == IF written THEN payload ELSE content

\* The dict maybe_schedule_on_login returns.
ScheduleResult(scheduled, reason, day) ==
    [f |-> "maybe_schedule_on_login", scheduled |-> scheduled, reason |-> reason, day |-> day]

InitAutoBackfill ==
    /\ sessions = <<>>
    /\ users = <<>>
    /\ lock = NoProc
    /\ call = [p \in Procs |-> Idle]
    /\ result = NoResult
    /\ lastRefresh = NoRefresh
    /\ expired = {}
    /\ now = 0
    /\ nextSid = 0
    /\ issued = 0
    /\ arg = NoArg
    /\ ret = NoRet
    /\ preferences = <<>>
    /\ \E enabled \in BOOLEAN :
           autoBackfill = [enabled |-> enabled, today |-> 1, state |-> EmptyState,
                           jobs |-> {}, nextJob |-> 0,
                           scheduled |-> [d \in 1..MaxDays |-> 0],
                           dropped |-> FALSE, overrun |-> FALSE]
    /\ request = NoRequest
    /\ bootstrapCache = <<>>

\* maybe_schedule_on_login
MaybeScheduleOnLogin(written) ==
    /\ LET a == autoBackfill
           today_iso == a.today
       IN  IF ~a.enabled
           THEN /\ ret' = ScheduleResult(FALSE, "disabled", 0)
                /\ UNCHANGED autoBackfill
           ELSE IF a.state.last_attempt_day = today_iso
           THEN /\ ret' = ScheduleResult(FALSE, "already_attempted_today", today_iso)
                /\ UNCHANGED autoBackfill
           ELSE /\ a.nextJob < MaxJobs
                /\ autoBackfill' =
                       [a EXCEPT !.state = WriteJson(a.state,
                                                     [last_attempt_day |-> today_iso,
                                                      last_status |-> "scheduled"],
                                                     written),
                                 !.jobs = @ \cup {[id |-> a.nextJob + 1,
                                                   today_iso |-> today_iso]},
                                 !.nextJob = @ + 1,
                                 !.scheduled[today_iso] = @ + 1,
                                 !.dropped = @ \/ ~written]
                /\ ret' = ScheduleResult(TRUE, "first_login_today", today_iso)
    /\ UNCHANGED <<sessions, users, lock, call, result, lastRefresh, expired, now, nextSid,
                   issued, arg, preferences, request, bootstrapCache>>

\* _run_backfill_job ends, on its try or its except branch: the state file
\* gets the day the job was started for.
RunBackfillJobEnds(job, last_status, written) ==
    /\ job \in autoBackfill.jobs
    /\ autoBackfill' =
           [autoBackfill EXCEPT !.state = WriteJson(@,
                                                    [last_attempt_day |-> job.today_iso,
                                                     last_status |-> last_status],
                                                    written),
                                !.jobs = @ \ {job},
                                !.dropped = @ \/ ~written,
                                !.overrun = @ \/ job.today_iso # autoBackfill.today]
    /\ UNCHANGED <<sessions, users, lock, call, result, lastRefresh, expired, now, nextSid,
                   issued, arg, ret, preferences, request,
                   bootstrapCache>>

\* Midnight in the configured time zone.
NextDay ==
    /\ autoBackfill.today < MaxDays
    /\ autoBackfill' = [autoBackfill EXCEPT !.today = @ + 1]
    /\ UNCHANGED <<sessions, users, lock, call, result, lastRefresh, expired, now, nextSid,
                   issued, arg, ret, preferences, request,
                   bootstrapCache>>

NextAutoBackfill ==
    \/ \E written \in BOOLEAN : MaybeScheduleOnLogin(written)
    \/ \E job \in autoBackfill.jobs, last_status \in {"success", "failed"},
          written \in BOOLEAN :
           RunBackfillJobEnds(job, last_status, written)
    \/ NextDay

SpecAutoBackfill == InitAutoBackfill /\ [][NextAutoBackfill]_vars

(***************************************************************************)
(* main.py: the request handlers health and bootstrap, both built on       *)
(* _run_with_auth_retry.  One request is handled at a time, by RequestProc; *)
(* the handler's calls of the manager are the manager's own actions, whose  *)
(* result the handler takes in its next step.  request.builds lists the     *)
(* get_bearer_token calls of the request and request.runs the runs of the   *)
(* operation, each with how it ended (0: it returned).                      *)
(***************************************************************************)
RequestProc == "p1"

\* Exceptions that are not HTTPException, so that `except HTTPException` lets
\* them pass; the client is answered with 500.
IsHTTPException(detail) == detail \notin {"OverflowError", "IntegrityError"}

\* HealthResponse(...)
HealthResponse(ok, token_configured, upstream_reachable) ==
    [NoResponse EXCEPT !.kind = "health", !.ok = ok, !.token_configured = token_configured,
                       !.upstream_reachable = upstream_reachable]

\* The payload of bootstrap.
BootstrapPayload(pinned_task_ids, preferences_version, stale, data_source, fetched_at_epoch) ==
    [NoResponse EXCEPT !.kind = "bootstrap", !.pinned_task_ids = pinned_task_ids,
                       !.preferences_version = preferences_version, !.stale = stale,
                       !.data_source = data_source, !.fetched_at_epoch = fetched_at_epoch]

\* json.dumps(payload), and BootstrapCache.payload(): a dict, or {} for
\* anything else
DumpPayload(payload) == [json |-> "dict", value |-> payload]
LoadPayload(payload_json) ==
    IF payload_json.json = "dict" THEN payload_json.value ELSE NoResponse

\* The request is answered: status_code 0 with the payload, or the error.
RequestEnds(r, status_code, detail, payload) ==
    [r EXCEPT !.pc = "done", !.status_code = status_code, !.detail = detail,
              !.payload = payload]

\* The status codes for which bootstrap turns to its cache.
CacheFallbackStatusCodesWith401 == {401, 502, 503, 504}
CacheFallbackStatusCodes == {502, 503, 504}

\* What the handler does with an exception that leaves _run_with_auth_retry.
HandlerCatches(r, status_code, detail) ==
    IF r.handler = "health"
    THEN IF IsHTTPException(detail)
         THEN RequestEnds(r, 0, "", HealthResponse(FALSE, TRUE, FALSE))
         ELSE RequestEnds(r, status_code, detail, NoResponse)
    ELSE IF IsHTTPException(detail) /\ status_code \in CacheFallbackStatusCodes
         THEN [r EXCEPT !.pc = "load_cache", !.status_code = status_code, !.detail = detail]
         ELSE RequestEnds(r, status_code, detail, NoResponse)

\* A wrapper that tries again after every HTTPException of the first run.
RetriesAfterAnyError(r, status_code, detail) == ~r.force /\ IsHTTPException(detail)

\* `except HTTPException as exc: if exc.status_code != 401: raise`, around the
\* run with the client that was built without force_refresh
Retries(r, status_code, detail) ==
    ~r.force /\ IsHTTPException(detail) /\ status_code = 401

\* The operation raises inside _run_with_auth_retry.
OperationRaises(r, status_code, detail) ==
    LET ran == [r EXCEPT !.runs = Append(@, [bearer_token |-> r.bearer_token,
                                              status_code |-> status_code])]
    IN  IF Retries(r, status_code, detail)
        THEN [ran EXCEPT !.pc = "build_client", !.force = TRUE]
        ELSE HandlerCatches(ran, status_code, detail)

\* The operation returns, and with it _run_with_auth_retry.
OperationReturns(r, payload) ==
    RequestEnds([r EXCEPT !.runs = Append(@, [bearer_token |-> r.bearer_token,
                                              status_code |-> 0])],
                0, "", payload)

\* A step of the handler alone.
RequestStep(r) ==
    /\ request' = r
    /\ UNCHANGED <<sessions, users, lock, call, result, lastRefresh, expired, now, nextSid,
                   issued, arg, ret, preferences, autoBackfill, bootstrapCache>>

\* A step of the handler that takes the result of its call of the manager.
RequestTakes(r) ==
    /\ request' = r
    /\ result' = NoResult
    /\ UNCHANGED <<sessions, users, lock, call, lastRefresh, expired, now, nextSid, issued,
                   arg, ret, preferences, autoBackfill, bootstrapCache>>

RequestIdle ==
    /\ request.pc = "idle"
    /\ Runs(RequestProc, "none", "idle")

\* The answer has gone to the client; the next request can come.
RequestAnswered ==
    /\ request.pc = "done"
    /\ RequestStep(NoRequest)

\* health, to its first await
Health(session_id) ==
    /\ RequestIdle
    /\ LET r == [NoRequest EXCEPT !.handler = "health", !.sid = session_id]
       IN  IF session_id = EmptySid
           THEN RequestStep(RequestEnds(r, 0, "", HealthResponse(TRUE, FALSE, FALSE)))
           ELSE RequestStep([r EXCEPT !.pc = "build_client"])

\* bootstrap, to its first await
Bootstrap(session_id) ==
    /\ RequestIdle
    /\ RequestStep([NoRequest EXCEPT !.handler = "bootstrap", !.sid = session_id,
                                     !.pc = "get_user_key"])

\* `user_key = await auth_manager.get_user_key_for_session(...)`
BootstrapGetUserKey ==
    /\ request.pc = "get_user_key"
    /\ GetUserKeyForSession(RequestProc, request.sid)

\* bootstrap, from the user key to _run_with_auth_retry
BootstrapUserKey ==
    /\ request.pc = "get_user_key"
    /\ result.proc = RequestProc
    /\ IF result.user_key = ""
       THEN RequestTakes(RequestEnds(request, 401, AuthRequired, NoResponse))
       ELSE RequestTakes([request EXCEPT !.pc = "build_client",
                                         !.user_key = result.user_key])

\* _build_client calls get_bearer_token
BuildClient ==
    /\ request.pc = "build_client"
    /\ GetBearerToken(RequestProc, request.sid, request.force)

\* get_bearer_token of _build_client at its refresh grant
BuildClientRefresh(response) ==
    /\ request.pc = "build_client"
    /\ GetBearerTokenRefresh(RequestProc, response)

\* _build_client returns the client, or get_bearer_token has raised
BuildClientEnds ==
    /\ request.pc = "build_client"
    /\ result.proc = RequestProc
    /\ LET r == [request EXCEPT !.builds = Append(@, [force_refresh |-> request.force,
                                                      status_code |-> result.status_code,
                                                      bearer_token |-> result.token])]
       IN  IF result.status_code # 0
           THEN RequestTakes(HandlerCatches(r, result.status_code, result.detail))
           ELSE RequestTakes([r EXCEPT !.pc = "operation", !.fetched = 0,
                                       !.bearer_token = result.token,
                                       !.resolved_user_key = result.user_key])

\* What ChessDojoClient._get_json gives: the JSON, or an HTTPException with
\* the status of the response (502 for a network error).
UpstreamErrorStatusCodes == {401, 403, 500, 502, 504}
UpstreamAnswers ==
    {[raised |-> FALSE, status_code |-> 200]}
        \cup {[raised |-> TRUE, status_code |-> c] : c \in UpstreamErrorStatusCodes}
UpstreamDetail == "ChessDojo GET failed"

\* health's operation: client.fetch_user()
HealthFetch(answer) ==
    /\ request.handler = "health"
    /\ request.pc = "operation"
    /\ Runs(RequestProc, "none", "idle")
    /\ IF answer.raised
       THEN RequestStep(OperationRaises(request, answer.status_code, UpstreamDetail))
       ELSE RequestStep(RequestEnds(OperationReturns(request, NoResponse), 0, "",
                                    HealthResponse(TRUE, TRUE, TRUE)))

\* _load: fetch_user, fetch_requirements, fetch_custom_access (whose 403 and
\* 404 are passed over); pinned_task_ids comes with the user.
LoadFetch(answer, pinned_task_ids) ==
    /\ request.handler = "bootstrap"
    /\ request.pc = "operation"
    /\ Runs(RequestProc, "none", "idle")
    /\ LET custom_access == request.fetched = 2
           fetched == [request EXCEPT !.fetched = @ + 1,
                                      !.pins = IF request.fetched = 0 THEN pinned_task_ids
                                               ELSE @]
       IN  IF answer.raised /\ ~(custom_access /\ answer.status_code \in {403, 404})
           THEN RequestStep(OperationRaises(fetched, answer.status_code, UpstreamDetail))
           ELSE IF custom_access
           THEN RequestStep([fetched EXCEPT !.pc = "get_preferences"])
           ELSE RequestStep(fetched)

\* `preferences = await auth_manager.get_preferences(...)`, in _load and in
\* the cache branch
BootstrapGetPreferences ==
    \/ /\ request.pc = "get_preferences"
       /\ GetPreferences(RequestProc, request.resolved_user_key, request.pins)
    \/ /\ request.pc = "cache_preferences"
       /\ GetPreferences(RequestProc, request.user_key, request.cached.pinned_task_ids)

BootstrapGetPreferencesCommit ==
    /\ request.pc \in {"get_preferences", "cache_preferences"}
    /\ GetPreferencesCommit(RequestProc)

\* _load, from the preferences to save_bootstrap_cache
LoadPreferences ==
    /\ request.pc = "get_preferences"
    /\ result.proc = RequestProc
    /\ IF result.status_code # 0
       THEN RequestTakes(OperationRaises(request, result.status_code, result.detail))
       ELSE RequestTakes([request EXCEPT
                !.pc = "save_cache",
                !.payload = BootstrapPayload(result.payload.pinned_task_ids,
                                             result.payload.version, FALSE, "live", now)])

\* save_bootstrap_cache, and _load returns the payload
SaveBootstrapCache ==
    /\ request.pc = "save_cache"
    /\ Runs(RequestProc, "none", "idle")
    /\ LET normalized_user_key == NormalizeUserKey(request.resolved_user_key)
       IN  bootstrapCache' =
               IF normalized_user_key = "" THEN bootstrapCache
               ELSE Put(bootstrapCache, normalized_user_key,
                        [payload_json |-> DumpPayload(request.payload),
                         fetched_at_epoch |-> request.payload.fetched_at_epoch])
    /\ request' = OperationReturns(request, request.payload)
    /\ UNCHANGED <<sessions, users, lock, call, result, lastRefresh, expired, now, nextSid,
                   issued, arg, ret, preferences, autoBackfill>>

\* load_bootstrap_cache, under the setting bootstrap_cache_max_age_seconds
LoadBootstrapCacheRow(cache, user_key, max_age_seconds, now_epoch) ==
    LET normalized_user_key == NormalizeUserKey(user_key)
    IN  IF normalized_user_key = "" \/ normalized_user_key \notin DOMAIN cache
        THEN [found |-> FALSE, payload |-> NoResponse, fetched_at_epoch |-> 0]
        ELSE LET row == cache[normalized_user_key]
             IN  IF Max(0, max_age_seconds) > 0
                    /\ now_epoch - row.fetched_at_epoch > Max(0, max_age_seconds)
                 THEN [found |-> FALSE, payload |-> NoResponse, fetched_at_epoch |-> 0]
                 ELSE IF LoadPayload(row.payload_json) = NoResponse
                 THEN [found |-> FALSE, payload |-> NoResponse, fetched_at_epoch |-> 0]
                 ELSE [found |-> TRUE, payload |-> LoadPayload(row.payload_json),
                       fetched_at_epoch |-> row.fetched_at_epoch]

\* bootstrap's `except HTTPException`: the cache row, or the exception again
LoadBootstrapCache(max_age_seconds) ==
    /\ request.pc = "load_cache"
    /\ Runs(RequestProc, "none", "idle")
    /\ LET cached_payload == LoadBootstrapCacheRow(bootstrapCache, request.user_key,
                                                   max_age_seconds, now)
           r == [request EXCEPT !.cache_loads = @ + 1]
       IN  IF ~cached_payload.found
           THEN RequestStep(RequestEnds(r, r.status_code, r.detail, NoResponse))
           ELSE RequestStep([r EXCEPT !.pc = "cache_preferences",
                                      !.cached = cached_payload.payload,
                                      !.cached_at_epoch = cached_payload.fetched_at_epoch])

\* bootstrap answers with the cached payload
CachePreferences ==
    /\ request.pc = "cache_preferences"
    /\ result.proc = RequestProc
    /\ IF result.status_code # 0
       THEN RequestTakes(RequestEnds(request, result.status_code, result.detail, NoResponse))
       ELSE RequestTakes(RequestEnds(request, 0, "",
                BootstrapPayload(result.payload.pinned_task_ids, result.payload.version,
                                 TRUE, "cache", request.cached_at_epoch)))

\* The caller of a handler that another coroutine ran takes its result.
ReturnToOther ==
    /\ result.proc # RequestProc
    /\ Return

\* bootstrap_cache_max_age_seconds: off, or shorter than a clock advance
MaxAgeSettings == {0, 30}

\* The session ids requests come with: none, and the one minted first.
RequestSids == {EmptySid, MintSessionId(0)}

\* pinned_task_ids as the upstream user payload has them
UpstreamPins == {<<IntItem("7")>>}

\* The other coroutines: logins and logouts of the same user.
OtherStep(p) ==
    \/ LoginCall(p, " U1 ", "secret-password", TRUE)
    \/ \E response \in LoginResponses : LoginBridge(p, response)
    \/ LoginCommit(p)
    \/ LoginStatus(p)
    \/ \E response \in RefreshResponses : StatusRefresh(p, response)
    \/ \E session_id \in SessionIds, all_devices \in BOOLEAN :
           Logout(p, session_id, all_devices)

NextRequests ==
    \/ Tick
    \/ ReturnToOther
    \/ \E p \in Procs \ {RequestProc} : OtherStep(p)
    \/ \E session_id \in RequestSids : Health(session_id)
    \/ \E session_id \in RequestSids : Bootstrap(session_id)
    \/ BootstrapGetUserKey
    \/ BootstrapUserKey
    \/ BuildClient
    \/ \E response \in RefreshResponses : BuildClientRefresh(response)
    \/ BuildClientEnds
    \/ \E answer \in UpstreamAnswers : HealthFetch(answer)
    \/ \E answer \in UpstreamAnswers, pinned_task_ids \in UpstreamPins :
           LoadFetch(answer, pinned_task_ids)
    \/ BootstrapGetPreferences
    \/ BootstrapGetPreferencesCommit
    \/ LoadPreferences
    \/ SaveBootstrapCache
    \/ \E max_age_seconds \in MaxAgeSettings : LoadBootstrapCache(max_age_seconds)
    \/ CachePreferences
    \/ RequestAnswered

SpecRequests == Init /\ [][NextRequests]_vars

(***************************************************************************)
(* Properties of the session life cycle.                                   *)
(***************************************************************************)
\* A row that is present and not revoked, read off the table itself.
Live(S, session_id) == session_id \in DOMAIN S /\ S[session_id].revoked = FALSE

\* In this step the handler op of coroutine p returns or raises.
Ends(p, op) == result = NoResult /\ result'.proc = p /\ result'.op = op

\* In this step coroutine p calls get_bearer_token(session_id, ...).
GetBearerTokenCalled(p, session_id) ==
    /\ result = NoResult
    /\ call[p].pc = "idle"
    /\ \/ Ends(p, "get_bearer_token") /\ result'.sid = session_id
       \/ call'[p].op = "get_bearer_token" /\ call'[p].sid = session_id

\* C1: get_bearer_token returns a (bearer token, user key) pair only for a
\* session row that exists and is not revoked when the call reads it; a call
\* that names a missing or revoked session (or none) ends in that same step
\* with 401 and no token, forced or not, without reaching the refresh grant.
C1_TokenOnlyForLiveSession ==
    [][/\ \A p \in Procs :
              Ends(p, "get_bearer_token") =>
                  IF result'.status_code = 0
                  THEN /\ Live(sessions, result'.sid)
                       /\ Truthy(result'.token)
                       /\ result'.user_key = sessions[result'.sid].user_key
                  ELSE result'.token = NoneVal /\ result'.user_key = ""
       /\ \A p \in Procs, session_id \in SidInputs :
              GetBearerTokenCalled(p, session_id) /\ ~Live(sessions, session_id) =>
                  /\ Ends(p, "get_bearer_token")
                  /\ result'.status_code = 401
                  /\ result'.token = NoneVal
                  /\ ~result'.refreshed]_vars

\* A forced call on a revoked row has just been refused.
C1_Witness ==
    /\ result.op = "get_bearer_token"
    /\ result.force
    /\ result.sid \in DOMAIN sessions
    /\ sessions[result.sid].revoked
    /\ result.status_code = 401

\* C2: no step removes a session row or turns a revoked row into a live one;
\* the commit of a login writes its row under an id that no row has; and a
\* refresh that commits (which stores revoked = False) finds its row not
\* revoked.
C2_RevokedForever ==
    [][/\ \A s \in DOMAIN sessions :
              /\ s \in DOMAIN sessions'
              /\ sessions[s].revoked => sessions'[s].revoked
       /\ \A p \in Procs :
              call[p].op = "login" /\ call'[p].op = "login_status" =>
                  /\ call[p].sid \notin DOMAIN sessions
                  /\ DOMAIN sessions' = DOMAIN sessions \cup {call[p].sid}
       /\ \A p \in Procs :
              /\ call[p].pc = "bridge"
              /\ call[p].op # "login"
              /\ call'[p].pc = "idle"
              => ~sessions[call[p].sid].revoked]_vars

\* A login has just committed its row while another row is revoked.
C2_Witness ==
    \E p \in Procs, s \in DOMAIN sessions :
        /\ call[p].op = "login_status"
        /\ call[p].sid \in DOMAIN sessions
        /\ s # call[p].sid
        /\ sessions[s].revoked

\* The token responses that carry a bearer token.
GoodResponses ==
    {r \in RefreshResponses :
        r.kind = "json" /\ (r.shape.id = "new" \/ r.shape.access = "new")}

\* C3: a get_bearer_token call whose refresh grant raises a 502 raises that
\* 502 and leaves both tables as they were: the row is still live and the
\* refresh token it used is still the stored one, so the next call that has
\* to refresh sends that token and commits whatever good response it gets.
C3_BadGatewayChangesNothing ==
    [][\A p \in Procs :
           Ends(p, "get_bearer_token") /\ result'.bridge = 502 =>
               /\ result'.status_code = 502
               /\ result'.token = NoneVal
               /\ sessions' = sessions
               /\ users' = users
               /\ Live(sessions', result'.sid)
               /\ LET again == GetBearerTokenLocked(sessions', users', result'.sid, TRUE, now')
                  IN  /\ again.next = "bridge"
                      /\ again.refresh_token = result'.used_refresh_token
                      /\ \A r \in GoodResponses :
                             LET out == GetBearerTokenRefreshed(
                                            sessions', users', result'.sid, again.refresh_token,
                                            OAuthRefreshTokens(r, issued' + 1), now', issued' + 1)
                             IN  out.next = "return" /\ Truthy(out.token)]_vars

\* A refresh has just failed with a 502 and the session is still live.
C3_Witness ==
    /\ result.op = "get_bearer_token"
    /\ result.bridge = 502
    /\ result.status_code = 502
    /\ Live(sessions, result.sid)

\* C4: when the refresh grant of a get_bearer_token call raises 400, 401 or
\* 403, the call raises 401 "Session expired" without a token, and by then
\* the session row is committed revoked and the refresh token of its user is
\* committed null.
C4_RefusedRefreshRevokes ==
    result.op = "get_bearer_token" /\ result.bridge \in {400, 401, 403} =>
        /\ result.status_code = 401
        /\ result.detail = SessionExpired
        /\ result.token = NoneVal
        /\ result.sid \in DOMAIN sessions
        /\ sessions[result.sid].revoked
        /\ sessions[result.sid].user_key \in DOMAIN users
        /\ users[sessions[result.sid].user_key].refresh_token_encrypted = NoneVal

\* The identity provider has just refused a refresh token with 400.
C4_Witness ==
    /\ result.op = "get_bearer_token"
    /\ result.bridge = 400
    /\ result.detail = SessionExpired
    /\ sessions[result.sid].revoked

\* C5, as the specification states it: once get_bearer_token has raised
\* "Session expired" for a session, every later get_bearer_token call on it
\* raises "Session expired" again.
C5_ExpiredStaysExpired ==
    [][\A p \in Procs, session_id \in expired :
           GetBearerTokenCalled(p, session_id) =>
               /\ Ends(p, "get_bearer_token")
               /\ result'.status_code = 401
               /\ result'.detail = SessionExpired]_vars

\* C5, as the code has it: the call that raises "Session expired" leaves the
\* row revoked, and every later get_bearer_token call on that session ends at
\* once with 401 and no token, without a refresh grant; its detail is the
\* "Authentication required" message of a missing session.
C5_ExpiredThenUnauthenticated ==
    [][/\ \A p \in Procs :
              Ends(p, "get_bearer_token") /\ result'.detail = SessionExpired =>
                  /\ result'.status_code = 401
                  /\ result'.sid \in DOMAIN sessions'
                  /\ sessions'[result'.sid].revoked
       /\ \A p \in Procs, session_id \in expired :
              GetBearerTokenCalled(p, session_id) =>
                  /\ Ends(p, "get_bearer_token")
                  /\ result'.status_code = 401
                  /\ result'.detail = AuthRequired
                  /\ result'.token = NoneVal
                  /\ ~result'.refreshed
                  /\ sessions' = sessions
                  /\ users' = users]_vars

\* A call on a session that had raised "Session expired" has just been refused.
C5_Witness ==
    /\ result.op = "get_bearer_token"
    /\ result.sid \in expired
    /\ result.detail = AuthRequired

\* C6: status never raises: whatever it finds, it returns a status object.
C6_StatusNeverRaises ==
    result.op = "status" => result.status_code = 0

CalledAfterRefresh(q, session_id) ==
    /\ lastRefresh.proc \notin {NoProc, q}
    /\ lastRefresh.sid = session_id
    /\ GetBearerTokenCalled(q, session_id)
    /\ IF Ends(q, "get_bearer_token") THEN ~result'.force ELSE ~call'[q].force

\* In this step get_bearer_token of q returns the bearer token of the row of
\* session_id as it finds it, without a refresh grant.
ReturnsStoredToken(q, session_id) ==
    /\ Ends(q, "get_bearer_token")
    /\ result'.status_code = 0
    /\ ~result'.refreshed
    /\ result'.token = IF Truthy(sessions[session_id].id_token)
                       THEN sessions[session_id].id_token
                       ELSE sessions[session_id].access_token
    /\ issued' = issued

\* C8, as the specification states it: after an unforced call has refreshed
\* a session with a token whose lifetime is longer than the skew, the
\* unforced call of another coroutine that enters the lock next returns the
\* refreshed token without a refresh grant of its own.
C8_SecondCallReusesRefresh ==
    [][\A q \in Procs, session_id \in SessionIds :
           /\ CalledAfterRefresh(q, session_id)
           /\ ~lastRefresh.force
           /\ sessions[session_id].expires_at_epoch - sessions[session_id].last_seen_epoch
                  > AuthRefreshSkewSeconds
           => ReturnsStoredToken(q, session_id)]_vars

\* C8, as the code has it: the second call returns the refreshed token
\* without a refresh grant when that token is still more than the skew away
\* from its expiry at the time the second call reads the row.
C8_SecondCallReusesValidRefresh ==
    [][\A q \in Procs, session_id \in SessionIds :
           /\ CalledAfterRefresh(q, session_id)
           /\ sessions[session_id].expires_at_epoch - AuthRefreshSkewSeconds > now
           => ReturnsStoredToken(q, session_id)]_vars

\* A call has just returned the token another coroutine's refresh stored.
C8_Witness ==
    /\ result.op = "get_bearer_token"
    /\ result.status_code = 0
    /\ ~result.refreshed
    /\ ~result.force
    /\ lastRefresh.proc \notin {NoProc, result.proc}
    /\ lastRefresh.sid = result.sid

\* C9: logout(all_devices=True) on a live session leaves every session row
\* of that user revoked and the refresh token of the user null, so that a
\* get_bearer_token call on any of these sessions, forced or not, raises
\* without a token.
C9_LogoutAllRevokesAll ==
    [][\A p \in Procs :
           /\ Ends(p, "logout")
           /\ result'.all_devices
           /\ Live(sessions, result'.sid)
           => LET user_key == sessions[result'.sid].user_key
              IN  /\ users'[user_key].refresh_token_encrypted = NoneVal
                  /\ \A s \in DOMAIN sessions :
                         sessions[s].user_key = user_key =>
                             /\ sessions'[s].revoked
                             /\ \A force_refresh \in BOOLEAN :
                                    LET out == GetBearerTokenLocked(sessions', users', s,
                                                                    force_refresh, now')
                                    IN  out.next = "raise" /\ out.token = NoneVal]_vars

\* logout(all_devices=True) has just returned and both sessions are revoked.
C9_Witness ==
    /\ result.op = "logout"
    /\ result.all_devices
    /\ Cardinality(DOMAIN sessions) = 2
    /\ \A s \in DOMAIN sessions : sessions[s].revoked
    /\ \A u \in DOMAIN users : users[u].refresh_token_encrypted = NoneVal

\* C10: the fan-out of logout(all_devices=True) is one step no refresh is
\* part of.  A get_bearer_token or status call that waits for its refresh
\* grant finds, when it commits, the row live and the refresh token stored as
\* it read them; no logout runs while such a call is in flight, and when a
\* logout of all devices ends, every row of the user that existed when it
\* began is revoked; a refresh token that is null is stored again only by the
\* commit of a login.
C10_FanOutIsAtomic ==
    [][/\ \A p \in Procs :
              call[p].pc = "bridge" /\ call[p].op # "login" =>
                  /\ Live(sessions, call[p].sid)
                  /\ Decrypt(users[sessions[call[p].sid].user_key].refresh_token_encrypted)
                         = call[p].refresh_token
       /\ \A p \in Procs :
              Ends(p, "logout") /\ result'.sid \in DOMAIN sessions =>
                  /\ \A q \in Procs : call[q].pc = "bridge" => call[q].op = "login"
                  /\ result'.all_devices =>
                         \A s \in DOMAIN sessions :
                             sessions[s].user_key = sessions[result'.sid].user_key
                                 => sessions'[s].revoked
       /\ \A u \in DOMAIN users :
              /\ users[u].refresh_token_encrypted = NoneVal
              /\ users'[u].refresh_token_encrypted # NoneVal
              => \E p \in Procs : call[p].op = "login" /\ call'[p].op = "login_status"]_vars

\* logout(all_devices=True) has just revoked a session whose token came from
\* a refresh, while the other coroutine waits for the lock with a new login.
C10_Witness ==
    \E p, q \in Procs :
        /\ result.op = "logout"
        /\ result.all_devices
        /\ result.proc = p
        /\ result.sid \in DOMAIN sessions
        /\ sessions[result.sid].revoked
        /\ sessions[result.sid].last_seen_epoch > 0
        /\ call[q].op = "login"
        /\ call[q].pc = "wait"

\* C11: in every state the store can be in, logout(session_id,
\* all_devices=False) on a row of the store commits that row with
\* revoked = True and nothing else: every other session row, the other
\* fields of the named row and the user rows (the refresh tokens with them)
\* are as before.
C11_LogoutOneRevokesOne ==
    \A session_id \in DOMAIN sessions :
        LET out == LogoutLocked(sessions, users, session_id, FALSE, now)
        IN  /\ out.next = "return"
            /\ out.users = users
            /\ out.sessions = [sessions EXCEPT ![session_id].revoked = TRUE]

\* logout(all_devices=False) has just returned; the row it named is revoked,
\* the other row of the same user is live and the refresh token is stored.
C11_Witness ==
    /\ result.op = "logout"
    /\ ~result.all_devices
    /\ result.sid \in DOMAIN sessions
    /\ sessions[result.sid].revoked
    /\ \E s \in DOMAIN sessions :
           /\ s # result.sid
           /\ sessions[s].user_key = sessions[result.sid].user_key
           /\ ~sessions[s].revoked
           /\ users[sessions[s].user_key].refresh_token_encrypted # NoneVal

\* C12: a logout that names no session (empty or white space only) or a
\* session the store does not have returns the anonymous status and changes
\* no session row and no user row, with all_devices true or false.
C12_LogoutUnknownIsNoOp ==
    [][\A p \in Procs :
           Ends(p, "logout") /\ result'.sid \notin DOMAIN sessions =>
               /\ result'.status_code = 0
               /\ result'.status = AnonymousStatus
               /\ sessions' = sessions
               /\ users' = users]_vars

\* logout(all_devices=True) with an unknown session id has just returned
\* while a live session exists.
C12_Witness ==
    /\ result.op = "logout"
    /\ result.all_devices
    /\ result.sid # EmptySid
    /\ result.sid \notin DOMAIN sessions
    /\ \E s \in DOMAIN sessions : ~sessions[s].revoked

\* The token of a row is more than the skew away from its expiry at time t.
Fresh(S, session_id, t) == S[session_id].expires_at_epoch - AuthRefreshSkewSeconds > t

\* C13: in every state the store can be in, get_bearer_token(session_id,
\* force_refresh=False) on a live row whose expiry minus the skew is greater
\* than now returns without a refresh grant: it returns the id token of the
\* row if that is not empty, else its access token, with the user key of the
\* row, and commits nothing but last_seen of that row.
C13_FreshTokenIsServed ==
    \A session_id \in DOMAIN sessions :
        Live(sessions, session_id) /\ Fresh(sessions, session_id, now) =>
            LET out == GetBearerTokenLocked(sessions, users, session_id, FALSE, now)
                row == sessions[session_id]
            IN  /\ out.next = "return"
                /\ out.status_code = 0
                /\ out.token = IF row.id_token # Empty THEN row.id_token ELSE row.access_token
                /\ out.token \notin {Empty, NoneVal}
                /\ out.user_key = row.user_key
                /\ out.users = users
                /\ out.sessions = [sessions EXCEPT ![session_id].last_seen_epoch = now]

\* An unforced call has just returned the stored id token after the clock
\* has moved, without a refresh grant.
C13_Witness ==
    /\ result.op = "get_bearer_token"
    /\ ~result.force
    /\ ~result.refreshed
    /\ result.status_code = 0
    /\ now > 0
    /\ sessions[result.sid].last_seen_epoch = now
    /\ result.token = sessions[result.sid].id_token
    /\ sessions[result.sid].access_token # Empty

\* C14: in every state the store can be in, an unforced get_bearer_token on
\* a live row whose expiry minus the skew is now or earlier does not return
\* the stored token, also when the expiry itself is later than now: with a
\* refresh token stored for the user it goes to the refresh grant with that
\* token, having changed nothing; without one it raises.
C14_StaleTokenIsRefreshed ==
    \A session_id \in DOMAIN sessions :
        Live(sessions, session_id) /\ ~Fresh(sessions, session_id, now) =>
            LET out == GetBearerTokenLocked(sessions, users, session_id, FALSE, now)
                stored == users[sessions[session_id].user_key].refresh_token_encrypted
            IN  IF stored # NoneVal
                THEN /\ out.next = "bridge"
                     /\ out.refresh_token = stored.plain
                     /\ out.sessions = sessions
                     /\ out.users = users
                ELSE out.next = "raise" /\ out.token = NoneVal

\* An unforced call waits for its refresh grant on a row whose expiry minus
\* the skew is exactly now, the expiry itself being in the future.
C14_Witness ==
    \E p \in Procs :
        /\ call[p].op = "get_bearer_token"
        /\ call[p].pc = "bridge"
        /\ ~call[p].force
        /\ sessions[call[p].sid].expires_at_epoch - AuthRefreshSkewSeconds = now
        /\ sessions[call[p].sid].expires_at_epoch > now

\* What the refresh token column can hold that does not decrypt: nothing,
\* an empty or blank string, or bytes that are no Fernet token of the key.
Undecryptable == {NoneVal, Empty, Blank, Tok("tampered", 1)}

\* C19: in every state the store can be in, a get_bearer_token call on a
\* live row that has to refresh (forced, or the token within the skew of its
\* expiry) while the refresh token column of the user holds nothing that
\* decrypts, raises 401 "Session expired" without a refresh grant and commits
\* the row revoked, and nothing else.
C19_NoRefreshTokenExpires ==
    \A session_id \in DOMAIN sessions, force_refresh \in BOOLEAN, column \in Undecryptable :
        /\ Live(sessions, session_id)
        /\ force_refresh \/ ~Fresh(sessions, session_id, now)
        => LET user_key == sessions[session_id].user_key
               stored == [users EXCEPT ![user_key].refresh_token_encrypted = column]
               out == GetBearerTokenLocked(sessions, stored, session_id, force_refresh, now)
           IN  /\ out.next = "raise"
               /\ out.status_code = 401
               /\ out.detail = SessionExpired
               /\ out.token = NoneVal
               /\ out.users = stored
               /\ out.sessions = [sessions EXCEPT ![session_id].revoked = TRUE]

\* A forced call on a live session of a user without stored refresh token
\* has just raised "Session expired" without a refresh grant.
C19_Witness ==
    /\ result.op = "get_bearer_token"
    /\ result.force
    /\ result.detail = SessionExpired
    /\ ~result.refreshed
    /\ sessions[result.sid].revoked
    /\ sessions[result.sid].expires_at_epoch - AuthRefreshSkewSeconds > now
    /\ users[sessions[result.sid].user_key].refresh_token_encrypted = NoneVal

\* The token responses that carry a new id token.
IdTokenResponses == {r \in RefreshResponses : r.kind = "json" /\ r.shape.id = "new"}

\* C16: whenever a get_bearer_token call (forced or not) waits for its
\* refresh grant, every response with a new id token makes it return that id
\* token and leaves a refresh token column that decrypts to the refresh
\* token of the response if it has one, and to the refresh token the call
\* sent if it has none (or a blank one); the next refresh of the session
\* sends what the column then decrypts to.
C16_RefreshTokenKeptOrRotated ==
    \A p \in Procs :
        call[p].op = "get_bearer_token" /\ call[p].pc = "bridge" =>
            \A r \in IdTokenResponses :
                LET n == issued + 1
                    session_id == call[p].sid
                    user_key == sessions[session_id].user_key
                    out == GetBearerTokenRefreshed(sessions, users, session_id,
                                                   call[p].refresh_token,
                                                   OAuthRefreshTokens(r, n), now, n)
                    column == out.users[user_key].refresh_token_encrypted
                    again == GetBearerTokenLocked(out.sessions, out.users, session_id, TRUE, now)
                IN  /\ out.next = "return"
                    /\ out.token = Tok("id", n)
                    /\ column # NoneVal
                    /\ column.k = "fernet"
                    /\ column.plain = IF r.shape.refresh = "new" THEN Tok("refresh", n)
                                      ELSE call[p].refresh_token
                    /\ again.next = "bridge"
                    /\ again.refresh_token = column.plain

\* A forced refresh whose response had no refresh token has just returned
\* the new id token; the column decrypts to the refresh token that was sent,
\* which a login had stored.
C16_Witness ==
    /\ result.op = "get_bearer_token"
    /\ result.force
    /\ result.bridge = 200
    /\ result.status_code = 0
    /\ result.token = Tok("id", issued)
    /\ issued = 2
    /\ result.used_refresh_token = Tok("refresh", 1)
    /\ users[result.user_key].refresh_token_encrypted.plain = Tok("refresh", 1)

\* In this step the login of coroutine p commits its user row and session row.
LoginCommits(p) == call[p].op = "login" /\ call'[p].op = "login_status"

SignedIn(status) ==
    /\ status.authenticated
    /\ status.auth_mode = "session"
    /\ status.has_refresh_token

\* C15: when a login with persist_refresh_token=True commits the tokens of
\* a response with id token, access token, refresh token and a lifetime of
\* 3600 s, then in the state it leaves status(session_id) reports
\* authenticated, auth_mode "session" and has_refresh_token, and
\* get_bearer_token(session_id) returns the id token of the response with the
\* trimmed, lower-cased email as user key; and the status call that ends a
\* login returns such a status when it finds the row live, more than the
\* skew away from its expiry and the refresh token in store.
C15_LoginSignsIn ==
    [][/\ \A p \in Procs :
              /\ LoginCommits(p)
              /\ call[p].persist
              /\ call[p].tokens.id_token = Tok("id", call[p].nonce)
              /\ call[p].tokens.access_token = Tok("access", call[p].nonce)
              /\ call[p].tokens.refresh_token = Tok("refresh", call[p].nonce)
              /\ call[p].tokens.expires_at_epoch = call[p].now_epoch + 3600
              => LET session_id == call[p].sid
                     status == StatusLocked(sessions', users', session_id, now')
                     token == GetBearerTokenLocked(sessions', users', session_id, FALSE, now')
                 IN  /\ status.next = "return"
                     /\ SignedIn(status.status)
                     /\ token.next = "return"
                     /\ token.token = Tok("id", call[p].nonce)
                     /\ token.user_key = "u1"
       /\ \A p \in Procs :
              /\ call[p].op = "login_status"
              /\ Ends(p, "login")
              /\ Live(sessions, call[p].sid)
              /\ Fresh(sessions, call[p].sid, now)
              /\ users[sessions[call[p].sid].user_key].refresh_token_encrypted # NoneVal
              => result'.status_code = 0 /\ SignedIn(result'.status)]_vars

\* A login has just returned a signed-in status for a session whose row
\* holds an id token and expires 3600 s after the login.
C15_Witness ==
    /\ result.op = "login"
    /\ result.status_code = 0
    /\ SignedIn(result.status)
    /\ sessions[result.sid].id_token # Empty
    /\ sessions[result.sid].expires_at_epoch - sessions[result.sid].last_seen_epoch = 3600
    /\ sessions[result.sid].user_key = "u1"

\* C17: a login that fails leaves the store unchanged: the login that
\* raises has committed no row, and the step in which it raises changes
\* none; a login refused for its email or password raises 422.
C17_FailedLoginCommitsNothing ==
    [][\A p \in Procs :
           Ends(p, "login") /\ result'.status_code # 0 =>
               /\ call[p].op # "login_status"
               /\ call[p].pc = "idle" => result'.status_code = 422
               /\ sessions' = sessions
               /\ users' = users]_vars

\* C17, for the failures ahead of the commit: a login that raises on its
\* arguments raises 422 before the credential flow is started, a login
\* whose credential flow raises or whose token response has no bearer token
\* raises before it asks for the lock, and neither changes a row.
C17_EarlyFailuresChangeNothing ==
    [][\A p \in Procs :
           Ends(p, "login") /\ result'.status_code # 0 /\ call[p].op # "login_status" =>
               /\ call[p].pc = "idle" => result'.status_code = 422 /\ issued' = issued
               /\ call[p].pc = "bridge" => result'.status_code \in {400, 401, 502}
               /\ call[p].pc \in {"idle", "bridge"}
               /\ sessions' = sessions
               /\ users' = users]_vars

\* The error codes of a body as the claim names them, in any case and with
\* or without white space around them.
SaysOneOf(body, codes) ==
    /\ body.kind = "dict"
    /\ \/ body.error \in codes
       \/ body.error = " Invalid_Grant " /\ "invalid_grant" \in codes
       \/ body.error = "UNSUPPORTED_GRANT_TYPE" /\ "unsupported_grant_type" \in codes

\* C20, as the specification states it: invalid_grant and unauthorized_client
\* give 401, invalid_request and unsupported_grant_type give 400, any other
\* 4xx status gives 401, anything else gives 502.
C20_Every4xxIsRefusal ==
    ret # NoRet =>
        ret.status_code =
            IF SaysOneOf(arg.body, {"invalid_grant", "unauthorized_client"}) THEN 401
            ELSE IF SaysOneOf(arg.body, {"invalid_request", "unsupported_grant_type"}) THEN 400
            ELSE IF arg.status_code \in 400..499 THEN 401
            ELSE 502

\* C20, as the code has it: invalid_grant and unauthorized_client give 401,
\* invalid_request and unsupported_grant_type give 400 (the code compared
\* trimmed and in lower case); otherwise the statuses 400, 401 and 403 give
\* 401 whatever the body, and every other status, 404 and 429 as well as
\* 5xx, gives 502.
C20_OnlyThree4xxAreRefusals ==
    ret # NoRet =>
        ret.status_code =
            IF SaysOneOf(arg.body, {"invalid_grant", "unauthorized_client"}) THEN 401
            ELSE IF SaysOneOf(arg.body, {"invalid_request", "unsupported_grant_type"}) THEN 400
            ELSE IF arg.status_code = 400 \/ arg.status_code = 401 \/ arg.status_code = 403
            THEN 401
            ELSE 502

\* A 429 without a known error code has been classified 502.
C20_Witness ==
    /\ ret # NoRet
    /\ arg.status_code = 429
    /\ arg.body.kind = "dict"
    /\ arg.body.error = "server_error"
    /\ ret.status_code = 502

\* The answers of the token endpoint that _oauth_refresh_tokens turns into an
\* HTTPException with status 502.
BadGatewayResponses ==
    {r \in RefreshResponses : LET a == OAuthRefreshTokens(r, 1) IN a.raised /\ a.status_code = 502}

\* C21: whenever a status call (one of its own or the one login ends with)
\* waits for its refresh grant, every answer the bridge turns into a 502
\* makes status return authenticated=false, auth_mode "session",
\* auth_state "network_error", needs_relogin=false, has_refresh_token=true
\* with the user's username, and commit nothing: the session row is as it
\* was, not revoked, and the stored refresh token is the one it read.
C21_BadGatewayIsNetworkError ==
    \A p \in Procs :
        call[p].pc = "bridge" /\ call[p].op \in StatusOps =>
            \A response \in BadGatewayResponses :
                LET out == StatusRefreshed(sessions, users, call[p].sid,
                                           call[p].refresh_token,
                                           OAuthRefreshTokens(response, issued + 1),
                                           now, issued + 1)
                    user_key == sessions[call[p].sid].user_key
                IN  /\ out.next = "return"
                    /\ out.status.authenticated = FALSE
                    /\ out.status.auth_mode = "session"
                    /\ out.status.auth_state = "network_error"
                    /\ out.status.needs_relogin = FALSE
                    /\ out.status.has_refresh_token = TRUE
                    /\ out.status.username = users[user_key].username
                    /\ out.sessions = sessions
                    /\ out.users = users
                    /\ Live(out.sessions, call[p].sid)
                    /\ out.users[user_key].refresh_token_encrypted # NoneVal

\* status has just returned "network_error" after a refresh grant that ended
\* with 502; the session is live and the refresh token is still stored.
C21_Witness ==
    /\ result.op = "status"
    /\ result.bridge = 502
    /\ result.status.auth_state = "network_error"
    /\ result.status.has_refresh_token
    /\ ~result.status.needs_relogin
    /\ Live(sessions, result.sid)
    /\ users[sessions[result.sid].user_key].refresh_token_encrypted # NoneVal

(***************************************************************************)
(* Properties of the preferences store.                                    *)
(***************************************************************************)
\* The version of the stored document of a user, 0 when there is none.
StoredVersion(P, user_key) == IF user_key \in DOMAIN P THEN P[user_key].version ELSE 0

\* In this step coroutine p calls update_preferences: it reads the row.
UpdateReads(p) ==
    /\ result = NoResult
    /\ call[p].pc = "idle"
    /\ \/ Ends(p, "update_preferences")
       \/ call'[p].op = "update_preferences"

\* C22: update_preferences called with an expected_version goes on to its
\* write only when expected_version equals the version of the stored
\* document as it reads it (0 for no document), and the write stores that
\* version plus one, and the document of the call, and returns it; with any
\* other expected_version it raises 409 at the read and the stored document
\* and version stay as they are.  Calls made one after the other therefore
\* go: from version 1, expected_version=1 gives 2, expected_version=1 again
\* raises 409, expected_version=2 gives 3.
C22_ExpectedVersionGuardsUpdate ==
    [][\A p \in Procs :
           /\ UpdateReads(p) /\ Ends(p, "update_preferences")
              /\ result'.user_key # "" /\ result'.expected_version.given =>
                  /\ result'.expected_version.v # StoredVersion(preferences, result'.user_key)
                  /\ result'.status_code = 409
                  /\ result'.detail = VersionConflictDetail
                  /\ preferences' = preferences
           /\ UpdateReads(p) /\ ~Ends(p, "update_preferences")
              /\ call'[p].expected_version.given =>
                  /\ call'[p].expected_version.v = StoredVersion(preferences, call'[p].user_key)
                  /\ call'[p].base_version = call'[p].expected_version.v
                  /\ preferences' = preferences
           /\ call[p].op = "update_preferences" /\ Ends(p, "update_preferences")
              /\ result'.status_code = 0 =>
                  /\ preferences'[result'.user_key].version = call[p].base_version + 1
                  /\ result'.payload.version = call[p].base_version + 1
                  /\ LoadPins(preferences'[result'.user_key].pinned_task_ids_json)
                         = result'.payload.pinned_task_ids
                  /\ \A u \in DOMAIN preferences :
                         u # result'.user_key => preferences'[u] = preferences[u]
           /\ Ends(p, "update_preferences") /\ result'.status_code # 0 =>
                  preferences' = preferences]_vars

\* update_preferences(expected_version=2) has just returned version 3.
C22_Witness ==
    /\ result.op = "update_preferences"
    /\ result.status_code = 0
    /\ result.expected_version = ExpectedVersion(2)
    /\ result.payload.version = 3
    /\ preferences[result.user_key].version = 3

(***************************************************************************)
(* Properties of the token lifetime.                                       *)
(***************************************************************************)
\* The payload of the call carries an id token or an access token.
HasBearer(a) == a.shape.id = "new" \/ a.shape.access = "new"

\* expires_in as an integer where it has one, read off the value itself:
\* the int, the digits of the string, 1 for True, the float cut at the point.
Convertible(e) == e.kind \in {"int", "bool", "digits", "float"}
AsInteger(e) ==
    IF e.kind = "float"
    THEN (IF e.v >= 0 THEN e.v \div 10 ELSE 0 - ((0 - e.v) \div 10))
    ELSE e.v

\* The lifetime the claim gives a payload.
ClaimedLifetime(e) ==
    LET seconds == IF Convertible(e) THEN AsInteger(e) ELSE 3600
    IN  IF seconds >= 60 THEN seconds ELSE 60

\* C23, as the specification states it: for every payload that carries a
\* bearer token, the session tokens are built and expires_at minus the time
\* of issue is expires_in as an integer, 3600 when it is missing or not
\* convertible, and never less than 60.
C23_LifetimeFlooredForEveryPayload ==
    ret # NoRet /\ HasBearer(arg) =>
        /\ ~ret.tokens.raised
        /\ ret.tokens.expires_at_epoch - now = ClaimedLifetime(arg.shape.expires_in)

\* The same for every payload whose expires_in is not an infinite float.
C23_LifetimeFlooredUnlessInfinite ==
    ret # NoRet /\ HasBearer(arg) /\ arg.shape.expires_in.kind # "inf" =>
        /\ ~ret.tokens.raised
        /\ ret.tokens.expires_at_epoch - now = ClaimedLifetime(arg.shape.expires_in)

(***************************************************************************)
(* Properties of the refresh threshold.                                    *)
(***************************************************************************)
\* In this step coroutine p commits new tokens for session_id, computed at
\* this instant: the commit of a login whose tokens were parsed at the
\* present time, or the commit of a refresh grant that succeeded.
TokensJustStored(p, session_id) ==
    /\ result = NoResult
    /\ \/ /\ LoginCommits(p)
          /\ call[p].sid = session_id
          /\ call[p].now_epoch = now
       \/ /\ call[p].pc = "bridge"
          /\ call[p].op # "login"
          /\ call[p].sid = session_id
          /\ result'.proc = p
          /\ result'.bridge = 200
          /\ result'.status_code = 0

\* C24, as the specification states it: right after a login or a refresh
\* has stored new tokens, the token counts as valid at that same instant,
\* so that a get_bearer_token(force_refresh=False) or a status call made
\* then would answer from the row without a refresh grant.
C24_NoImmediateExpiryLoop ==
    [][\A p \in Procs : \A session_id \in SessionIds :
           TokensJustStored(p, session_id) =>
               /\ Fresh(sessions', session_id, now')
               /\ GetBearerTokenLocked(sessions', users', session_id, FALSE, now').next
                      = "return"
               /\ StatusLocked(sessions', users', session_id, now').next = "return"]_vars

(***************************************************************************)
(* Properties of the token cipher.                                         *)
(***************************************************************************)
\* decrypt has returned, after encrypt(arg.x) or on arg.x itself.
RoundTripDone == arg.f = "encrypt" /\ ret.f = "decrypt"
DecryptDone == arg.f = "decrypt" /\ ret.f = "decrypt"

CiphertextOfContent(stored) ==
    /\ stored.k = "fernet"
    /\ stored.plain.k = "refresh"
    /\ stored.plain.n > 0
    /\ stored.plain.pad = FALSE

\* C26: in every reachable state each user row's refresh_token_encrypted is
\* null or a ciphertext that decrypts to a string with content; a refresh
\* token that is empty or white space only is stored as null, never as a
\* ciphertext of the empty string.
C26_StoredRefreshTokenNullOrContent ==
    \A u \in DOMAIN users :
        \/ users[u].refresh_token_encrypted = NoneVal
        \/ CiphertextOfContent(users[u].refresh_token_encrypted)

\* A login told to persist has committed after a token response whose
\* refresh token was white space only: the row holds null.
C26_Witness ==
    \E p \in Procs :
        /\ call[p].op = "login_status"
        /\ call[p].persist
        /\ issued = 1
        /\ Live(sessions, call[p].sid)
        /\ sessions[call[p].sid].id_token # Empty
        /\ sessions[call[p].sid].expires_at_epoch - sessions[call[p].sid].last_seen_epoch <= 180
        /\ users[sessions[call[p].sid].user_key].refresh_token_encrypted = NoneVal

(***************************************************************************)
(* Properties of the refusals of get_bearer_token.                         *)
(***************************************************************************)
\* The user table without the row of user_key.
WithoutUser(U, user_key) == [u \in DOMAIN U \ {user_key} |-> U[u]]

\* C27: a get_bearer_token call that names no session (null, empty, white
\* space), a session the store does not have or a revoked one raises 401
\* with the sign-in message in the step it starts with, forced or not, makes
\* no refresh grant and changes no row.  On a live session whose owning user
\* row is missing (whatever else the store holds) it raises the same 401
\* without a refresh grant, and commits that session as revoked and nothing
\* else.
C27_RefusedWithoutBridge ==
    [][/\ \A p \in Procs :
              Ends(p, "get_bearer_token") /\ call[p].pc = "idle"
              /\ ~Live(sessions, result'.sid) =>
                  /\ result'.status_code = 401
                  /\ result'.detail = AuthRequired
                  /\ result'.token = NoneVal
                  /\ result'.bridge = 0
                  /\ sessions' = sessions
                  /\ users' = users
       /\ \A session_id \in DOMAIN sessions : \A force_refresh \in BOOLEAN :
              Live(sessions, session_id) =>
                  LET orphaned == WithoutUser(users, sessions[session_id].user_key)
                      out == GetBearerTokenLocked(sessions, orphaned, session_id,
                                                  force_refresh, now)
                  IN  /\ out.next = "raise"
                      /\ out.status_code = 401
                      /\ out.detail = AuthRequired
                      /\ out.token = NoneVal
                      /\ out.users = orphaned
                      /\ out.sessions = [sessions EXCEPT ![session_id].revoked = TRUE]]_vars

\* A forced get_bearer_token on a revoked session has just raised 401 while
\* the user's refresh token is still stored.
C27_Witness ==
    /\ result.op = "get_bearer_token"
    /\ result.force
    /\ result.status_code = 401
    /\ result.detail = AuthRequired
    /\ result.sid \in DOMAIN sessions
    /\ sessions[result.sid].revoked
    /\ users[sessions[result.sid].user_key].refresh_token_encrypted # NoneVal

(***************************************************************************)
(* Properties of the user rows.                                            *)
(***************************************************************************)
\* The stored refresh token of user u goes from present to null in this step.
RefreshTokenCleared(u) ==
    /\ u \in DOMAIN users
    /\ users[u].refresh_token_encrypted # NoneVal
    /\ users'[u].refresh_token_encrypted = NoneVal

\* This step is the end of a logout(all_devices=True) on a session of u.
LogoutAllEnds(u) ==
    \E p \in Procs :
        /\ Ends(p, "logout")
        /\ result'.all_devices
        /\ result'.sid \in DOMAIN sessions
        /\ sessions[result'.sid].user_key = u

\* This step is the end of a refresh grant for a session of u that the
\* bridge classified 400, 401 or 403.
RefusedRefreshEnds(u) ==
    \E p \in Procs :
        /\ call[p].pc = "bridge"
        /\ call[p].op # "login"
        /\ sessions[call[p].sid].user_key = u
        /\ result'.proc = p
        /\ result'.bridge \in {400, 401, 403}

\* This step is the commit of a login of u that does not store a refresh
\* token: persist_refresh_token is false or the token response had none.
LoginWithoutRefreshTokenCommits(u) ==
    \E p \in Procs :
        /\ LoginCommits(p)
        /\ call[p].user_key = u
        /\ \/ ~call[p].persist
           \/ call[p].tokens.refresh_token = NoneVal

\* User rows stay, under their key, with the key for username.
UserRowsStay ==
    \A u \in DOMAIN users : u \in DOMAIN users' /\ users'[u].username = u

\* C28, as the specification states it: a user row once created is never
\* deleted and keeps its key, and its stored refresh token goes from present
\* to null only through logout(all_devices=True) or a refresh grant refused
\* with 400, 401 or 403.
C28_ClearedOnlyByLogoutOrRefusal ==
    [][/\ UserRowsStay
       /\ \A u \in DOMAIN users :
              RefreshTokenCleared(u) => LogoutAllEnds(u) \/ RefusedRefreshEnds(u)]_vars

\* C28, as the code has it: a user row once created is never deleted and
\* keeps its key, and its stored refresh token goes from present to null
\* only through logout(all_devices=True), through a refresh grant refused
\* with 400, 401 or 403, or through the commit of a later login of that user
\* made with persist_refresh_token=False or answered without a refresh token.
C28_ClearedOnlyByLogoutRefusalOrLogin ==
    [][/\ UserRowsStay
       /\ \A u \in DOMAIN users :
              RefreshTokenCleared(u) =>
                  \/ LogoutAllEnds(u)
                  \/ RefusedRefreshEnds(u)
                  \/ LoginWithoutRefreshTokenCommits(u)]_vars

\* A login with persist_refresh_token=False is about to commit for a user
\* whose refresh token is stored and whose earlier session is live.
C28_Witness ==
    \E p \in Procs :
        /\ call[p].op = "login"
        /\ call[p].pc = "wait"
        /\ ~call[p].persist
        /\ call[p].user_key \in DOMAIN users
        /\ users[call[p].user_key].refresh_token_encrypted # NoneVal
        /\ \E s \in DOMAIN sessions : ~sessions[s].revoked
        /\ lock = NoProc
        /\ result = NoResult

(***************************************************************************)
(* status against get_bearer_token.                                        *)
(***************************************************************************)
\* The refresh token a user row holds, read through the ciphertext.
StoredPlain(user_state) ==
    IF user_state.refresh_token_encrypted = NoneVal THEN NoneVal
    ELSE user_state.refresh_token_encrypted.plain

\* Two handlers leave the same store: the same session rows (tokens, expiry,
\* last_seen and revoked flag) and the same user rows, the refresh tokens
\* compared by what they decrypt to since no two ciphertexts are alike.
SameStore(a, b) ==
    /\ a.sessions = b.sessions
    /\ DOMAIN a.users = DOMAIN b.users
    /\ \A u \in DOMAIN a.users :
           /\ a.users[u].username = b.users[u].username
           /\ a.users[u].updated_at_epoch = b.users[u].updated_at_epoch
           /\ StoredPlain(a.users[u]) = StoredPlain(b.users[u])

\* C29: from every store state and clock, status(session_id) and
\* get_bearer_token(session_id, force_refresh=False) commit the same rows up
\* to the refresh grant, make the refresh grant in the same cases and with
\* the same refresh token, and for every answer of the token endpoint, at
\* whatever time it comes, commit the same rows again: the store they leave
\* is the same.
C29_StatusCommitsWhatGetBearerTokenCommits ==
    \A session_id \in SessionIds :
        LET g == GetBearerTokenLocked(sessions, users, session_id, FALSE, now)
            s == StatusLocked(sessions, users, session_id, now)
        IN  /\ SameStore(g, s)
            /\ (g.next = "bridge") = (s.next = "bridge")
            /\ g.next = "bridge" =>
                   /\ g.refresh_token = s.refresh_token
                   /\ \A response \in RefreshResponses :
                      \A t \in {now, now + TickSeconds} :
                          SameStore(
                              GetBearerTokenRefreshed(g.sessions, g.users, session_id,
                                                      g.refresh_token,
                                                      OAuthRefreshTokens(response, issued + 1),
                                                      t, 1),
                              StatusRefreshed(s.sessions, s.users, session_id,
                                              s.refresh_token,
                                              OAuthRefreshTokens(response, issued + 1),
                                              t, 2))

\* A status call has just committed the tokens of a refresh grant it made.
C29_Witness ==
    /\ result.op = "status"
    /\ result.bridge = 200
    /\ result.status.authenticated
    /\ Live(sessions, result.sid)
    /\ sessions[result.sid].last_seen_epoch = now
    /\ StoredPlain(users[sessions[result.sid].user_key]) # NoneVal

(***************************************************************************)
(* Properties of the auto-backfill.                                        *)
(***************************************************************************)
\* What the last call returned fits the state file it found.
LastCallAnswered ==
    ret # NoRet =>
        IF ~autoBackfill.enabled
        THEN ~ret.scheduled /\ ret.reason = "disabled"
        ELSE \/ ret.scheduled /\ ret.reason = "first_login_today"
             \/ ~ret.scheduled /\ ret.reason = "already_attempted_today"

\* C30, as the specification states it: with auto-backfill enabled, on no
\* local day does more than one call return scheduled=True and start a job,
\* whatever calls and job endings come in between; every other call returns
\* scheduled=False, "already_attempted_today"; with auto-backfill disabled no
\* call starts a job.
C30_OncePerDay ==
    /\ LastCallAnswered
    /\ \A d \in 1..MaxDays : autoBackfill.scheduled[d] <= 1
    /\ ~autoBackfill.enabled => autoBackfill.nextJob = 0

\* The same, as long as every write of the state file has succeeded and no
\* job has ended on a later day than the one it was started on.
C30_OncePerDayWhenUndisturbed ==
    /\ LastCallAnswered
    /\ ~autoBackfill.dropped /\ ~autoBackfill.overrun =>
           \A d \in 1..MaxDays : autoBackfill.scheduled[d] <= 1
    /\ ~autoBackfill.enabled => autoBackfill.nextJob = 0

(***************************************************************************)
(* Properties of the request handlers.                                     *)
(***************************************************************************)
\* How _run_with_auth_retry failed, going by the calls the request has made:
\* the status of the last get_bearer_token or of the last run; 0 when neither
\* failed.
WrapperError(r) ==
    IF Len(r.builds) > 0 /\ r.builds[Len(r.builds)].status_code # 0
    THEN r.builds[Len(r.builds)].status_code
    ELSE IF Len(r.runs) > 0 THEN r.runs[Len(r.runs)].status_code
    ELSE 0

\* The request has left _run_with_auth_retry.
WrapperLeft(r) == r.pc \in {"done", "load_cache", "cache_preferences"} /\ Len(r.builds) > 0

\* C31: _run_with_auth_retry runs the operation at most twice in a request.
\* The first run uses the token of get_bearer_token(force_refresh=False); a
\* second get_bearer_token is made only after the first run failed with 401,
\* it is made with force_refresh=True, and the second run uses its token.  A
\* first run that failed with 401 is always followed by that second call.
\* An error of get_bearer_token (first or second call), any other error of
\* the first run and any error of the second run end the wrapper with that
\* error, with no further call or run; bootstrap, which answers from the
\* cache or raises what it caught, then raises exactly that error unless it
\* turned to the cache.
C31_RetryOnceOnlyAfter401 ==
    LET b == request.builds
        r == request.runs
    IN  /\ Len(r) <= 2 /\ Len(b) <= 2 /\ Len(r) <= Len(b)
        /\ Len(b) >= 1 => ~b[1].force_refresh
        /\ Len(r) >= 1 => b[1].status_code = 0 /\ r[1].bearer_token = b[1].bearer_token
        /\ Len(b) = 2 =>
               /\ b[2].force_refresh
               /\ Len(r) >= 1 /\ r[1].status_code = 401
        /\ Len(r) = 2 => b[2].status_code = 0 /\ r[2].bearer_token = b[2].bearer_token
        /\ WrapperLeft(request) =>
               /\ Len(r) >= 1 /\ r[1].status_code = 401 => Len(b) = 2
               /\ b[Len(b)].status_code = 0 => Len(r) = Len(b)
               /\ request.handler = "bootstrap" /\ request.pc = "done"
                  /\ request.cache_loads = 0 =>
                      request.status_code = WrapperError(request)

\* A request whose first run failed with 401 and whose second run, with the
\* token of the forced refresh, returned.
C31_Witness ==
    /\ request.pc = "done"
    /\ Len(request.runs) = 2
    /\ request.runs[1].status_code = 401
    /\ request.runs[2].status_code = 0
    /\ request.builds[2].force_refresh
    /\ request.runs[2].bearer_token # request.runs[1].bearer_token

\* C32: bootstrap answers from the cache (stale=True, data_source="cache",
\* fetched_at_epoch of the cached row) only after _run_with_auth_retry failed
\* with 502, 503 or 504 and with a cache row of the session's user.  After
\* any other failure, 401 among them, the cache is not read and the failure
\* is raised.  get_user_key_for_session gives no user key exactly when the
\* session row is missing or revoked, and then the request ends with 401
\* without a get_bearer_token call, an upstream fetch or a cache read.
C32_CacheOnlyWhenUpstreamUnreachable ==
    request.handler = "bootstrap" =>
        /\ request.pc = "get_user_key" /\ result.proc = RequestProc =>
               (result.user_key = "" <=> ~Live(sessions, request.sid))
        /\ request.pc # "get_user_key" /\ request.user_key = "" =>
               /\ request.pc = "done"
               /\ request.status_code = 401 /\ request.detail = AuthRequired
               /\ Len(request.builds) = 0 /\ Len(request.runs) = 0
               /\ request.fetched = 0 /\ request.cache_loads = 0
        /\ request.cache_loads > 0 \/ request.pc = "load_cache" =>
               WrapperError(request) \in {502, 503, 504}
        /\ request.pc = "done" /\ request.payload.data_source = "cache" =>
               /\ request.status_code = 0
               /\ request.payload.stale
               /\ request.cache_loads = 1
               /\ request.user_key \in DOMAIN bootstrapCache
               /\ request.payload.fetched_at_epoch =
                      bootstrapCache[request.user_key].fetched_at_epoch
        /\ request.pc = "done" /\ Len(request.builds) > 0
           /\ WrapperError(request) \notin {0, 502, 503, 504} =>
               /\ request.status_code = WrapperError(request)
               /\ request.payload = NoResponse
               /\ request.cache_loads = 0

\* bootstrap has answered from a cache row that was written at an earlier
\* time, after the live path failed.
C32_Witness ==
    /\ request.handler = "bootstrap"
    /\ request.pc = "done"
    /\ request.payload.data_source = "cache"
    /\ request.payload.stale
    /\ request.payload.fetched_at_epoch < now
    /\ WrapperError(request) = 502

\* C33: whatever the other coroutines do, a login that returns (rather than
\* raises) returns a status with authenticated=True and auth_mode="session"
\* for the session id it returns.
C33_LoginReturnsAuthenticated ==
    result.op = "login" /\ result.status_code = 0 =>
        /\ result.status.authenticated
        /\ result.status.auth_mode = "session"

\* The same for the logins whose closing status call found the session row
\* as the login committed it, not revoked by another coroutine meanwhile,
\* and more than the skew away from its expiry.
C33_LoginReturnsAuthenticatedWhenUndisturbed ==
    result.op = "login" /\ result.status_code = 0
    /\ Live(sessions, result.sid) /\ ~result.refreshed =>
        /\ result.status.authenticated
        /\ result.status.auth_mode = "session"

(***************************************************************************)
(* Further properties of the session life cycle.                           *)
(***************************************************************************)
\* C34: logout(session_id, all_devices=True) with the id of a session row
\* that exists and is already revoked still nulls the refresh token of the
\* row's user and leaves every session row of that user revoked, the rows of
\* later logins among them.
C34_LogoutAllOfRevokedSessionStillFansOut ==
    [][\A p \in Procs :
           /\ Ends(p, "logout")
           /\ result'.all_devices
           /\ result'.sid \in DOMAIN sessions
           /\ sessions[result'.sid].revoked
           => LET user_key == sessions[result'.sid].user_key
              IN  /\ users'[user_key].refresh_token_encrypted = NoneVal
                  /\ \A s \in DOMAIN sessions :
                         sessions[s].user_key = user_key => sessions'[s].revoked]_vars

\* logout(all_devices=True) has just returned for a session on which
\* get_bearer_token had raised "Session expired" before (so that it was
\* revoked already); the session of a later login, on which no call has
\* raised, is revoked too, and the refresh token is null.
C34_Witness ==
    /\ result.op = "logout"
    /\ result.all_devices
    /\ result.sid \in expired
    /\ \E s \in DOMAIN sessions :
           /\ s > result.sid
           /\ s \notin expired
           /\ sessions[s].user_key = sessions[result.sid].user_key
           /\ sessions[s].revoked
    /\ users[sessions[result.sid].user_key].refresh_token_encrypted = NoneVal

\* A call of p is under way: it awaits the bridge or waits for the lock.
UnderWay(p) == call[p].pc # "idle"

\* C35: with every bridge call returning or raising in the end, every call
\* that is under way comes to its end, and a lock that is held is released;
\* a coroutine that runs no call does not hold the lock, and one that waits
\* for the lock (login before its commit, login before its status call) does
\* not hold it either, so that login cannot wait for itself.
C35_EveryCallCompletes ==
    /\ [](\A p \in Procs :
             /\ ~UnderWay(p) => lock # p
             /\ call[p].pc = "wait" => lock # p)
    /\ \A p \in Procs : UnderWay(p) ~> ~UnderWay(p)
    /\ \A p \in Procs : (lock = p) ~> (lock = NoProc)

\* A login has returned after its status call refreshed the tokens: it
\* waited for the credential flow, for the lock twice and for the refresh
\* grant under the lock, and the lock is free.
C35_Witness ==
    /\ result.op = "login"
    /\ result.status_code = 0
    /\ result.refreshed
    /\ lock = NoProc
    /\ \A p \in Procs : ~UnderWay(p)

\* C36: every session row names a user row that exists, so that for no live
\* session get_bearer_token (forced or not) or status takes the branch that
\* revokes the session because its user row is missing: get_bearer_token
\* raising the sign-in 401 with the row revoked, status returning the
\* anonymous status with the row revoked.
C36_EverySessionHasItsUser ==
    \A s \in DOMAIN sessions :
        /\ sessions[s].user_key \in DOMAIN users
        /\ Live(sessions, s) =>
               /\ \A force_refresh \in BOOLEAN :
                      LET out == GetBearerTokenLocked(sessions, users, s, force_refresh, now)
                      IN  ~(out.next = "raise" /\ out.detail = AuthRequired
                            /\ out.sessions[s].revoked)
               /\ LET out == StatusLocked(sessions, users, s, now)
                  IN  ~(out.next = "return" /\ out.status = AnonymousStatus
                        /\ out.sessions[s].revoked)

\* Two logins have committed, one session is revoked and one is live, and
\* get_bearer_token has just raised the sign-in 401 on the revoked one.
C36_Witness ==
    /\ Cardinality(DOMAIN sessions) = 2
    /\ \E s \in DOMAIN sessions : Live(sessions, s)
    /\ result.op = "get_bearer_token"
    /\ result.status_code = 401
    /\ result.detail = AuthRequired
    /\ result.sid \in DOMAIN sessions
    /\ sessions[result.sid].revoked
    /\ sessions[result.sid].user_key \in DOMAIN users

\* The status value a call of status, login or logout has just returned.
ReturnedStatus == result.op \in {"status", "login", "logout"} /\ result.status_code = 0

\* C37: every status value returned by status, login or logout is consistent:
\* authenticated implies mode "session", state "ok" and no re-login needed;
\* state "expired" implies not authenticated, no refresh token and re-login
\* needed; state "network_error" implies not authenticated and no re-login
\* needed; mode "none" implies no username; and the state is one of the three.
C37_StatusIsConsistent ==
    ReturnedStatus =>
        LET s == result.status
        IN  /\ s.auth_state \in {"ok", "expired", "network_error"}
            /\ s.authenticated =>
                   s.auth_mode = "session" /\ s.auth_state = "ok" /\ ~s.needs_relogin
            /\ s.auth_state = "expired" =>
                   ~s.authenticated /\ ~s.has_refresh_token /\ s.needs_relogin
            /\ s.auth_state = "network_error" =>
                   ~s.authenticated /\ ~s.needs_relogin
            /\ s.auth_mode = "none" => s.username = NoUsername

\* status has just returned the network-error status of a live session.
C37_Witness ==
    /\ ReturnedStatus
    /\ result.op = "status"
    /\ result.status.auth_state = "network_error"
    /\ result.status.auth_mode = "session"
    /\ result.sid \in DOMAIN sessions
    /\ ~sessions[result.sid].revoked

\* login has just returned the expired status of the session it created.
C37_WitnessLoginExpired ==
    /\ ReturnedStatus
    /\ result.op = "login"
    /\ result.status.auth_state = "expired"

\* logout has just returned the anonymous status.
C37_WitnessLogout ==
    /\ ReturnedStatus
    /\ result.op = "logout"
    /\ result.status.auth_mode = "none"

(***************************************************************************)
(* Logins of two users                                                     *)
(***************************************************************************)
TwoEmails == {" U1 ", "u2"}

\* Logins of two users with the status calls, refreshes and logouts that
\* can run between them, on a clock that stands still.
LoginsStep(p) ==
    \/ \E email \in TwoEmails, persist \in BOOLEAN :
           LoginCall(p, email, "secret-password", persist)
    \/ \E response \in LoginResponses : LoginBridge(p, response)
    \/ LoginCommit(p)
    \/ LoginStatus(p)
    \/ \E session_id \in SessionIds : StatusCall(p, session_id)
    \/ \E response \in RefreshResponses : StatusRefresh(p, response)
    \/ \E session_id \in SessionIds, all_devices \in BOOLEAN :
           Logout(p, session_id, all_devices)

NextLogins ==
    \/ Return
    \/ \E p \in Procs : LoginsStep(p)

SpecLogins == Init /\ [][NextLogins]_vars

\* C38: the commit of a login adds exactly one session row, under a session
\* id no row had, not revoked, owned by the logging-in user and carrying the
\* tokens and the expiry of the response; it leaves every row the sessions
\* table had unchanged, writes no user row but that of the logging-in user,
\* and no preferences or cache row; and the status call that ends the login
\* adds no row and changes no session row but the new one and no user row but
\* that of its owner.
C38_LoginAddsOneSession ==
    [][\A p \in Procs :
           /\ LoginCommits(p) =>
                  LET session_id == call[p].sid
                      user_key == call[p].user_key
                  IN  /\ session_id \notin DOMAIN sessions
                      /\ DOMAIN sessions' = DOMAIN sessions \cup {session_id}
                      /\ ~sessions'[session_id].revoked
                      /\ sessions'[session_id].user_key = user_key
                      /\ sessions'[session_id].id_token = call[p].tokens.id_token
                      /\ sessions'[session_id].access_token = call[p].tokens.access_token
                      /\ sessions'[session_id].expires_at_epoch
                             = call[p].tokens.expires_at_epoch
                      /\ \A s \in DOMAIN sessions : sessions'[s] = sessions[s]
                      /\ DOMAIN users' = DOMAIN users \cup {user_key}
                      /\ \A u \in DOMAIN users \ {user_key} : users'[u] = users[u]
                      /\ UNCHANGED <<preferences, bootstrapCache>>
           /\ (call[p].op = "login_status" /\ call'[p] # call[p]) =>
                  LET session_id == call[p].sid
                      user_key == sessions[session_id].user_key
                  IN  /\ DOMAIN sessions' = DOMAIN sessions
                      /\ \A s \in DOMAIN sessions \ {session_id} : sessions'[s] = sessions[s]
                      /\ DOMAIN users' = DOMAIN users
                      /\ \A u \in DOMAIN users \ {user_key} : users'[u] = users[u]
                      /\ UNCHANGED <<preferences, bootstrapCache>>]_vars

\* A login of one user has just committed its session row next to a live
\* session row of the other user.
C38_Witness ==
    \E p \in Procs :
        /\ call[p].op = "login_status"
        /\ call[p].pc = "wait"
        /\ call[p].sid \in DOMAIN sessions
        /\ ~sessions[call[p].sid].revoked
        /\ \E s \in DOMAIN sessions :
               /\ s # call[p].sid
               /\ sessions[s].user_key # sessions[call[p].sid].user_key
               /\ Live(sessions, s)
        /\ Cardinality(DOMAIN users) = 2

(***************************************************************************)
(* Overlapping updates of the preferences                                  *)
(***************************************************************************)
GivenVersions == {ExpectedVersion(v) : v \in 0..MaxVersion}

\* Two coroutines update the preferences of one user, every call carrying
\* an expected_version.
NextUpdates ==
    \/ Return
    \/ \E p \in Procs :
           \/ \E pins \in PinInputs, task_ui \in TaskUiInputs,
                 expected_version \in GivenVersions :
                  UpdatePreferences(p, " U1 ", pins, task_ui, expected_version)
           \/ UpdatePreferencesCommit(p)

SpecUpdates == Init /\ [][NextUpdates]_vars

\* C39: of update_preferences calls of one user that overlap and carry the
\* same expected_version at most one succeeds and the others fail with the
\* version conflict: a call that succeeds finds the stored version still
\* equal to its expected_version when it writes and raises it by one, so that
\* no successful update is overwritten unseen, and a call that fails after
\* its read fails with 409.
C39_OverlappingUpdatesConflict ==
    [][\A p \in Procs :
           /\ call[p].op = "update_preferences"
           /\ call[p].pc = "commit"
           /\ call[p].expected_version.given
           /\ Ends(p, "update_preferences")
           => IF result'.status_code = 0
              THEN /\ StoredVersion(preferences, call[p].user_key) = call[p].expected_version.v
                   /\ preferences'[call[p].user_key].version
                          = StoredVersion(preferences, call[p].user_key) + 1
              ELSE /\ result'.status_code = 409
                   /\ result'.detail = VersionConflictDetail]_vars

\* The part of it about the calls that succeed: none writes over a version
\* it has not read.
C39_NoUpdateOverwritten ==
    [][\A p \in Procs :
           /\ call[p].op = "update_preferences"
           /\ call[p].pc = "commit"
           /\ call[p].expected_version.given
           /\ Ends(p, "update_preferences")
           /\ result'.status_code = 0
           => StoredVersion(preferences, call[p].user_key) = call[p].expected_version.v]_vars

\* Two calls with the same expected_version have both passed the version
\* check and neither has written yet.
C39_Overlap ==
    \E p, q \in Procs :
        /\ p # q
        /\ call[p].op = "update_preferences" /\ call[p].pc = "commit"
        /\ call[q].op = "update_preferences" /\ call[q].pc = "commit"
        /\ call[p].user_key = call[q].user_key
        /\ call[p].expected_version = call[q].expected_version
        /\ call[p].expected_version.given

(***************************************************************************)
(* Sessions of a user without stored refresh token                         *)
(***************************************************************************)
\* The refresh token column of the user is null.
NoStoredRefreshToken(user_key) ==
    user_key \in DOMAIN users /\ users[user_key].refresh_token_encrypted = NoneVal

\* In this step a login of the user commits.
LoginOfUserCommits(user_key) ==
    \E p \in Procs : LoginCommits(p) /\ call[p].user_key = user_key

\* The token the row serves: the id token, the access token without one.
CurrentToken(session_record) ==
    IF Truthy(session_record.id_token) THEN session_record.id_token
    ELSE session_record.access_token

\* C40: in every step taken while the refresh token column of a user is
\* null and in which no login of that user commits, the column stays null, no
\* refresh of a session of the user is under way, every session row of the
\* user keeps its tokens and its expiry, and a revoked one stays revoked; a
\* get_bearer_token call on a live session of the user returns the token of
\* the row while the clock is before expiry minus skew and the call is not
\* forced, and otherwise raises 401 "Session expired" without a refresh grant
\* and leaves the row revoked; a status call (also the one that ends a login)
\* reports authenticated before that point and otherwise reports "expired"
\* and leaves the row revoked.
C40_NoRenewalWithoutRefreshToken ==
    [][\A user_key \in DOMAIN users :
           NoStoredRefreshToken(user_key) /\ ~LoginOfUserCommits(user_key) =>
               /\ user_key \in DOMAIN users'
               /\ users'[user_key].refresh_token_encrypted = NoneVal
               /\ \A s \in DOMAIN sessions :
                      sessions[s].user_key = user_key =>
                          /\ \A p \in Procs : ~(call[p].pc = "bridge" /\ call[p].op # "login"
                                                /\ call[p].sid = s)
                          /\ s \in DOMAIN sessions'
                          /\ sessions'[s].id_token = sessions[s].id_token
                          /\ sessions'[s].access_token = sessions[s].access_token
                          /\ sessions'[s].expires_at_epoch = sessions[s].expires_at_epoch
                          /\ sessions[s].revoked => sessions'[s].revoked
                          /\ \A p \in Procs :
                                 /\ Live(sessions, s)
                                 /\ call[p].op = "none"
                                 /\ Ends(p, "get_bearer_token")
                                 /\ result'.sid = s
                                 => IF ~result'.force /\ Fresh(sessions, s, now)
                                    THEN /\ result'.status_code = 0
                                         /\ result'.token = CurrentToken(sessions[s])
                                         /\ ~sessions'[s].revoked
                                    ELSE /\ result'.status_code = 401
                                         /\ result'.detail = SessionExpired
                                         /\ ~result'.refreshed
                                         /\ sessions'[s].revoked
                          /\ \A p \in Procs :
                                 /\ Live(sessions, s)
                                 /\ \/ call[p].op = "none" /\ Ends(p, "status")
                                    \/ call[p].op = "login_status" /\ Ends(p, "login")
                                 /\ result'.sid = s
                                 => /\ result'.status_code = 0
                                    /\ ~result'.refreshed
                                    /\ IF Fresh(sessions, s, now)
                                       THEN /\ result'.status.authenticated
                                            /\ ~sessions'[s].revoked
                                       ELSE /\ result'.status.auth_state = "expired"
                                            /\ ~result'.status.authenticated
                                            /\ sessions'[s].revoked]_vars

\* An unforced get_bearer_token has just revoked a session of a user without
\* stored refresh token: the session was last served before it came within
\* the skew of its expiry, and the clock has passed that point since.
C40_Witness ==
    /\ result.op = "get_bearer_token"
    /\ ~result.force
    /\ result.detail = SessionExpired
    /\ ~result.refreshed
    /\ result.sid \in DOMAIN sessions
    /\ sessions[result.sid].revoked
    /\ NoStoredRefreshToken(sessions[result.sid].user_key)
    /\ Fresh(sessions, result.sid, sessions[result.sid].last_seen_epoch)
    /\ ~Fresh(sessions, result.sid, now)

====
